---- MODULE Spec2Model ----
(***************************************************************************)
(* Market-data acquisition layer of stock_tracker_agent: the provider      *)
(* fallback orchestrator with its TTL cache (MarketDataService), the       *)
(* SQLite price history (StorageAdapter), the change detector              *)
(* (PriceChange.calculate) and the breach pipeline (PriceService).         *)
(*                                                                         *)
(* Strings are sequences of one-character strings so that str.upper() and  *)
(* str.strip() are computed, not assumed.  Message texts are sequences of  *)
(* fragments; "contains" is contiguous sub-sequence.                       *)
(***************************************************************************)
EXTENDS Integers, Sequences, FiniteSets, TLC

VARIABLES cache, now, lastCall, lastFill, change, history, threshold, lastRun,
          savedPoints, lastQuery, probe, service, built, run

orchVars == <<cache, now, lastCall, lastFill>>

calcVars == <<change>>

storeVars == <<history, threshold, lastRun>>

queryVars == <<savedPoints, lastQuery>>

probeVars == <<probe, service, built>>

stepVars == <<run>>

vars == <<cache, now, lastCall, lastFill, change, history, threshold, lastRun,
          savedPoints, lastQuery, probe, service, built, run>>

----------------------------------------------------------------------------
(* Bounds of the model *)

MaxTime == 4

MaxRows == 3

CacheTtl == 2

----------------------------------------------------------------------------
(* Symbols as the callers spell them *)

SymLower == <<"a", "a", "p", "l">>

SymUpper == <<"A", "A", "P", "L">>

SymPadded == <<" ", " ", "A", "A", "P", "L", " ", " ">>

SymOther == <<"M", "S", "F", "T">>

SymBad == <<"A", "$">>

AaplSpellings == {SymLower, SymUpper, SymPadded}

RawSymbols == AaplSpellings \cup {SymOther}

----------------------------------------------------------------------------
(* str.upper() and str.strip() *)

UpperChar(c) ==
    CASE c = "a" -> "A"
      [] c = "p" -> "P"
      [] c = "l" -> "L"
      [] c = "m" -> "M"
      [] c = "s" -> "S"
      [] c = "f" -> "F"
      [] c = "t" -> "T"
      [] OTHER -> c

Upper(s) == [i \in 1..Len(s) |-> UpperChar(s[i])]

IsSpace(c) == c = " "

RECURSIVE LStrip(_)
LStrip(s) ==
    IF s # <<>> /\ IsSpace(Head(s)) THEN LStrip(Tail(s)) ELSE s

RECURSIVE RStrip(_)
RStrip(s) ==
    IF s # <<>> /\ IsSpace(s[Len(s)]) THEN RStrip(SubSeq(s, 1, Len(s) - 1)) ELSE s

Strip(s) == RStrip(LStrip(s))

AlnumChars == {"A", "P", "L", "M", "S", "F", "T", "a", "p", "l", "m", "s", "f", "t",
               "0", "1", "2", "3", "4", "5", "6", "7", "8", "9"}

AllowedChars == {".", "^", "-"}

MaxSymbolLen == 10

(* a validator that only uppercases *)
validate_stock_symbol_upper_only(symbol) ==
    IF symbol = <<>> THEN [ok |-> FALSE, value |-> <<>>]
    ELSE [ok |-> TRUE, value |-> Upper(symbol)]

(* validate_stock_symbol: upper, strip, then non-empty, length and charset *)
validate_stock_symbol(symbol) ==
    LET cleaned == Strip(Upper(symbol))
    IN  IF cleaned = <<>> THEN [ok |-> FALSE, value |-> <<>>]
        ELSE IF Len(cleaned) > MaxSymbolLen THEN [ok |-> FALSE, value |-> <<>>]
        ELSE IF \E i \in 1..Len(cleaned) :
                    cleaned[i] \notin (AlnumChars \cup AllowedChars)
             THEN [ok |-> FALSE, value |-> <<>>]
        ELSE [ok |-> TRUE, value |-> cleaned]

(* the symbol field of a model: Field(min_length=1, max_length=10) on the *)
(* text as given, then the validator                                      *)
symbol_field(symbol) ==
    IF Len(symbol) < 1 \/ Len(symbol) > MaxSymbolLen
    THEN [ok |-> FALSE, value |-> <<>>]
    ELSE validate_stock_symbol(symbol)

(* contiguous sub-sequence *)
Contains(text, part) ==
    \E i \in 1..(Len(text) - Len(part) + 1) :
        SubSeq(text, i, i + Len(part) - 1) = part

----------------------------------------------------------------------------
(* Exceptions of market_data_exceptions.py: type and str(e) *)

RateLimitError(provider, message) ==
    [type |-> "RateLimitError",
     text |-> <<"Rate limit exceeded for ", provider>>
              \o (IF message # <<>> THEN <<": ">> \o message ELSE <<>>)]

ProviderUnavailableError(provider, message) ==
    [type |-> "ProviderUnavailableError",
     text |-> <<"Provider ", provider, " unavailable">>
              \o (IF message # <<>> THEN <<": ">> \o message ELSE <<>>)]

MarketDataUnavailableError(symbol, message) ==
    [type |-> "MarketDataUnavailableError",
     symbol |-> symbol,
     text |-> (<<"Market data unavailable for ">> \o symbol)
              \o (IF message # <<>> THEN <<": ">> \o message ELSE <<>>)]

ValueError(message) == [type |-> "ValueError", text |-> message]

NoError == [type |-> "none", text |-> <<>>]

----------------------------------------------------------------------------
(* PriceQuote and the providers *)

NoQuote == [symbol |-> <<>>, price |-> 0, timestamp |-> 0, provider_name |-> "none"]

(* PriceQuote(...): symbol validated and normalised, price > 0 *)
PriceQuote(symbol, price, timestamp, provider_name) ==
    LET v == symbol_field(symbol)
    IN  IF v.ok /\ price > 0
        THEN [ok |-> TRUE,
              quote |-> [symbol |-> v.value, price |-> price,
                         timestamp |-> timestamp, provider_name |-> provider_name]]
        ELSE [ok |-> FALSE, quote |-> NoQuote]

providers == <<"finnhub", "twelve_data", "yahoo_finance">>

OutcomeKinds == {"ok", "RateLimitError", "ProviderUnavailableError", "ValueError"}

Outcomes == [1..Len(providers) -> OutcomeKinds]

QuotePrice == 100

(* One provider's get_latest_price(symbol) at time t with the outcome the  *)
(* data source produces: a quote built with symbol.upper(), or the error.  *)
provider_get_latest_price(name, symbol, kind, price, t) ==
    CASE kind = "ok" ->
            LET q == PriceQuote(Upper(symbol), price, t, name)
            IN  IF q.ok THEN [ok |-> TRUE, quote |-> q.quote, error |-> NoError]
                ELSE [ok |-> FALSE, quote |-> NoQuote,
                      error |-> ProviderUnavailableError(name, <<"validation error">>)]
      [] kind = "RateLimitError" ->
            [ok |-> FALSE, quote |-> NoQuote,
             error |-> RateLimitError(name, <<"Rate limit">>)]
      [] kind = "ProviderUnavailableError" ->
            [ok |-> FALSE, quote |-> NoQuote,
             error |-> ProviderUnavailableError(name, <<"Service down">>)]
      [] OTHER ->
            [ok |-> FALSE, quote |-> NoQuote,
             error |-> ValueError(<<"Unexpected error">>)]

(* What a data source gives to one call of an adapter *)
NoField == [text |-> "none", value |-> 0]

Garbage == [text |-> "garbage", value |-> 0]

Num(n) == [text |-> "number", value |-> n]

Resp(transport, status, json, tag, message, price, close) ==
    [transport |-> transport, status |-> status, json |-> json, tag |-> tag,
     message |-> message, price |-> price, close |-> close]

NoResponse == Resp(FALSE, 0, FALSE, "none", <<>>, NoField, NoField)

----------------------------------------------------------------------------
(* MarketDataService: cache *)

(* an entry that is still served at its expiry instant *)
is_expired_strict(entry, t) == t > entry.expires_at

(* _CacheEntry.is_expired at time t *)
is_expired(entry, t) == t >= entry.expires_at

(* a lookup that leaves an expired entry where it is *)
get_from_cache_keep(c, symbol, t) ==
    IF symbol \in DOMAIN c /\ ~is_expired(c[symbol], t)
    THEN [hit |-> TRUE, quote |-> c[symbol].quote, cache |-> c]
    ELSE [hit |-> FALSE, quote |-> NoQuote, cache |-> c]

(* _get_from_cache: the quote of a valid entry; an expired entry is removed *)
get_from_cache(c, symbol, t) ==
    IF symbol \in DOMAIN c /\ ~is_expired(c[symbol], t)
    THEN [hit |-> TRUE, quote |-> c[symbol].quote, cache |-> c]
    ELSE [hit |-> FALSE, quote |-> NoQuote,
          cache |-> [k \in (DOMAIN c) \ {symbol} |-> c[k]]]

(* a cache that holds the newest quote only *)
cache_quote_only(c, quote, t) ==
    [k \in {quote.symbol} |-> [quote |-> quote, expires_at |-> t + CacheTtl]]

(* a cache in which the first entry of a symbol stays *)
cache_quote_keep_first(c, quote, t) ==
    [k \in (DOMAIN c) \cup {quote.symbol} |->
        IF k \in DOMAIN c THEN c[k]
        ELSE [quote |-> quote, expires_at |-> t + CacheTtl]]

(* _cache_quote: stored under the quote's own symbol, expiry = now + ttl *)
cache_quote(c, quote, t) ==
    [k \in (DOMAIN c) \cup {quote.symbol} |->
        IF k = quote.symbol
        THEN [quote |-> quote, expires_at |-> t + CacheTtl]
        ELSE c[k]]

(* the exception types a provider call can end with; all derive from Exception *)
MarketDataErrorTypes == {"RateLimitError", "ProviderUnavailableError"}

ExceptionTypes == MarketDataErrorTypes \cup {"ValueError"}

(* a narrower handler: "except MarketDataError" *)
except_MarketDataError(e) == e.type \in MarketDataErrorTypes

(* the handler of the loop: "except Exception as e" *)
except_Exception(e) == e.type \in ExceptionTypes

(* a loop that asks every provider and keeps the last answer *)
RECURSIVE try_providers_best_of_n(_, _, _, _, _, _, _)
try_providers_best_of_n(i, symbol_upper, outcomes, price, t, invoked, last_error) ==
    IF i > Len(providers)
    THEN [ok |-> FALSE, quote |-> NoQuote, invoked |-> invoked,
          last_error |-> last_error, escaped |-> NoError]
    ELSE LET r == provider_get_latest_price(providers[i], symbol_upper,
                                            outcomes[i], price, t)
             rest == try_providers_best_of_n(i + 1, symbol_upper, outcomes, price, t,
                                             Append(invoked, i),
                                             IF r.ok THEN last_error ELSE r.error)
         IN  IF r.ok /\ ~rest.ok
             THEN [rest EXCEPT !.ok = TRUE, !.quote = r.quote]
             ELSE rest

(* a loop that retains the first error instead of the last *)
RECURSIVE try_providers_first_error(_, _, _, _, _, _, _)
try_providers_first_error(i, symbol_upper, outcomes, price, t, invoked, last_error) ==
    IF i > Len(providers)
    THEN [ok |-> FALSE, quote |-> NoQuote, invoked |-> invoked,
          last_error |-> last_error, escaped |-> NoError]
    ELSE LET r == provider_get_latest_price(providers[i], symbol_upper,
                                            outcomes[i], price, t)
         IN  IF r.ok
             THEN [ok |-> TRUE, quote |-> r.quote,
                   invoked |-> Append(invoked, i), last_error |-> last_error,
                   escaped |-> NoError]
             ELSE try_providers_first_error(i + 1, symbol_upper, outcomes, price, t,
                                Append(invoked, i),
                                IF last_error = NoError THEN r.error ELSE last_error)

(* the for-loop over self.providers, from provider i on: the first quote  *)
(* ends it, a caught error moves on, an uncaught one leaves the call      *)
RECURSIVE try_providers(_, _, _, _, _, _, _)
try_providers(i, symbol_upper, outcomes, price, t, invoked, last_error) ==
    IF i > Len(providers)
    THEN [ok |-> FALSE, quote |-> NoQuote, invoked |-> invoked,
          last_error |-> last_error, escaped |-> NoError]
    ELSE LET r == provider_get_latest_price(providers[i], symbol_upper,
                                            outcomes[i], price, t)
         IN  IF r.ok
             THEN [ok |-> TRUE, quote |-> r.quote,
                   invoked |-> Append(invoked, i), last_error |-> last_error,
                   escaped |-> NoError]
             ELSE IF except_Exception(r.error)
             THEN try_providers(i + 1, symbol_upper, outcomes, price, t,
                                Append(invoked, i), r.error)
             ELSE [ok |-> FALSE, quote |-> NoQuote,
                   invoked |-> Append(invoked, i), last_error |-> last_error,
                   escaped |-> r.error]

(* MarketDataService.get_latest_price as a function of cache and clock.  *)
(* The cache is looked up at time t; a provider that answers does so one *)
(* tick later, and the quote is stamped and cached at that instant, so   *)
(* two fetches never carry the same timestamp.                           *)
svc_get_latest_price(c, t, symbol, outcomes, price) ==
    LET symbol_upper == Upper(symbol)
        cached == get_from_cache(c, symbol_upper, t)
    IN  IF cached.hit
        THEN [ok |-> TRUE, hit |-> TRUE, quote |-> cached.quote,
              invoked |-> <<>>, error |-> NoError, cache |-> cached.cache,
              now |-> t]
        ELSE LET r == try_providers(1, symbol_upper, outcomes, price, t + 1,
                                    <<>>, NoError)
             IN  IF r.ok
                 THEN [ok |-> TRUE, hit |-> FALSE, quote |-> r.quote,
                       invoked |-> r.invoked, error |-> NoError,
                       cache |-> cache_quote(cached.cache, r.quote, t + 1),
                       now |-> t + 1]
                 ELSE IF r.escaped # NoError
                 THEN [ok |-> FALSE, hit |-> FALSE, quote |-> NoQuote,
                       invoked |-> r.invoked, error |-> r.escaped,
                       cache |-> cached.cache, now |-> t]
                 ELSE [ok |-> FALSE, hit |-> FALSE, quote |-> NoQuote,
                       invoked |-> r.invoked,
                       error |-> MarketDataUnavailableError(symbol_upper,
                                    <<"All providers failed">>
                                    \o (IF r.last_error # NoError
                                        THEN <<": ">> \o r.last_error.text
                                        ELSE <<>>)),
                       cache |-> cached.cache, now |-> t]

----------------------------------------------------------------------------
(* decimal.Decimal under the default context: 28 significant digits,     *)
(* ROUND_HALF_EVEN.  A value is sign * d1.d2...d28 * 10^exp, digits kept   *)
(* as a sequence; zero has sign 0.                                         *)

DecimalPrec == 28

DecZero == [sign |-> 0, digits |-> [i \in 1..DecimalPrec |-> 0], exp |-> 0]

(* scale numerator and denominator until d <= n < 10 d *)
RECURSIVE DecNorm(_, _, _)
DecNorm(n, d, e) ==
    IF n < d THEN DecNorm(10 * n, d, e - 1)
    ELSE IF n >= 10 * d THEN DecNorm(n, 10 * d, e + 1)
    ELSE [n |-> n, d |-> d, e |-> e]

(* long division: the next k digits of r / d and the remainder left over *)
RECURSIVE DecDigits(_, _, _, _)
DecDigits(r, d, k, acc) ==
    IF k = 0 THEN [digits |-> acc, rem |-> r]
    ELSE DecDigits(10 * (r % d), d, k - 1, Append(acc, r \div d))

(* add one unit in the last place; all nines carry into a new digit *)
RECURSIVE DecIncr(_, _)
DecIncr(digits, i) ==
    IF i = 0 THEN [digits |-> [j \in 1..Len(digits) |-> IF j = 1 THEN 1 ELSE 0],
                   carry |-> 1]
    ELSE IF digits[i] < 9
         THEN [digits |-> [j \in 1..Len(digits) |->
                              IF j = i THEN digits[i] + 1
                              ELSE IF j > i THEN 0 ELSE digits[j]],
               carry |-> 0]
         ELSE DecIncr(digits, i - 1)

(* rounding that drops the discarded digits: ROUND_DOWN *)
RoundsUpNever(last, rem10, d) == FALSE

(* ROUND_HALF_EVEN on the discarded part rem10 / (10 d) *)
RoundsUp(last, rem10, d) ==
    \/ 2 * rem10 > 10 * d
    \/ (2 * rem10 = 10 * d /\ last % 2 = 1)

(* n / d for integers n >= 0, d > 0, correctly rounded *)
DecDiv(n, d) ==
    IF n = 0 THEN DecZero
    ELSE LET s == DecNorm(n, d, 0)
             q == DecDigits(s.n, s.d, DecimalPrec, <<>>)
         IN  IF RoundsUp(q.digits[DecimalPrec], q.rem, s.d)
             THEN LET u == DecIncr(q.digits, DecimalPrec)
                  IN  [sign |-> 1, digits |-> u.digits, exp |-> s.e + u.carry]
             ELSE [sign |-> 1, digits |-> q.digits, exp |-> s.e]

(* the Decimal written as the integer n scaled by 10^-places *)
DecOf(n, places) ==
    IF n = 0 THEN DecZero
    ELSE LET a == DecDiv(IF n < 0 THEN -n ELSE n, 1)
         IN  [a EXCEPT !.sign = IF n < 0 THEN -1 ELSE 1, !.exp = a.exp - places]

DecNeg(a) == [a EXCEPT !.sign = -a.sign]

DecAbs(a) == [a EXCEPT !.sign = IF a.sign = 0 THEN 0 ELSE 1]

(* a * 100: the coefficient is unchanged, the exponent moves by two *)
DecTimes100(a) == IF a.sign = 0 THEN a ELSE [a EXCEPT !.exp = a.exp + 2]

RECURSIVE SeqCmp(_, _, _)
SeqCmp(a, b, i) ==
    IF i > Len(a) THEN 0
    ELSE IF a[i] < b[i] THEN -1
    ELSE IF a[i] > b[i] THEN 1
    ELSE SeqCmp(a, b, i + 1)

(* comparison of magnitudes of two non-zero values *)
MagCmp(a, b) ==
    IF a.exp < b.exp THEN -1
    ELSE IF a.exp > b.exp THEN 1
    ELSE SeqCmp(a.digits, b.digits, 1)

(* -1, 0, 1 as a < b, a = b, a > b *)
DecCmp(a, b) ==
    IF a.sign # b.sign THEN (IF a.sign < b.sign THEN -1 ELSE 1)
    ELSE IF a.sign = 0 THEN 0
    ELSE IF a.sign = 1 THEN MagCmp(a, b)
    ELSE MagCmp(b, a)

----------------------------------------------------------------------------
(* PricePoint and PriceChange (models/stock.py).  Prices are Decimals with *)
(* two places, held as integer cents; thresholds are Decimals with two     *)
(* places, held as integer hundredths of a percent.                        *)

ThresholdPlaces == 2

NoPoint == [symbol |-> <<>>, price |-> 0, currency |-> "none", timestamp |-> 0]

PricePoint(symbol, price, timestamp, currency) ==
    LET v == symbol_field(symbol)
    IN  IF v.ok /\ price > 0
        THEN [ok |-> TRUE,
              point |-> [symbol |-> v.value, price |-> price,
                         currency |-> currency, timestamp |-> timestamp]]
        ELSE [ok |-> FALSE, point |-> NoPoint]

NoChange == [symbol |-> <<>>, previous_price |-> 0, current_price |-> 0,
             change_amount |-> 0, change_percent |-> DecZero,
             threshold_exceeded |-> FALSE,
             previous_timestamp |-> 0, current_timestamp |-> 0]

(* PriceChange(...): symbol validated and normalised, both prices > 0 *)
PriceChange(symbol, previous_price, current_price, change_amount, change_percent, threshold_exceeded, previous_timestamp, current_timestamp) ==
    LET v == symbol_field(symbol)
    IN  IF v.ok /\ previous_price > 0 /\ current_price > 0
        THEN [ok |-> TRUE,
              change |-> [symbol |-> v.value,
                          previous_price |-> previous_price,
                          current_price |-> current_price,
                          change_amount |-> change_amount,
                          change_percent |-> change_percent,
                          threshold_exceeded |-> threshold_exceeded,
                          previous_timestamp |-> previous_timestamp,
                          current_timestamp |-> current_timestamp]]
        ELSE [ok |-> FALSE, change |-> NoChange]

(* the quotient change_amount / previous.price of two amounts in cents *)
change_ratio(change_amount, previous_price) ==
    LET q == DecDiv(IF change_amount < 0 THEN -change_amount ELSE change_amount,
                    previous_price)
    IN  IF change_amount < 0 THEN DecNeg(q) ELSE q

(* a detector whose comparison is strict *)
calculate_strict(symbol, previous, current, thr) ==
    LET change_amount == current.price - previous.price
        change_percent == DecTimes100(change_ratio(change_amount, previous.price))
        threshold_exceeded ==
            DecCmp(DecAbs(change_percent), DecOf(thr, ThresholdPlaces)) > 0
    IN  [symbol |-> validate_stock_symbol(symbol).value,
         previous_price |-> previous.price,
         current_price |-> current.price,
         change_amount |-> change_amount,
         change_percent |-> change_percent,
         threshold_exceeded |-> threshold_exceeded,
         previous_timestamp |-> previous.timestamp,
         current_timestamp |-> current.timestamp]

(* a detector that compares the wrong way round *)
calculate_reversed(symbol, previous, current, thr) ==
    LET change_amount == current.price - previous.price
        change_percent == DecTimes100(change_ratio(change_amount, previous.price))
        threshold_exceeded ==
            DecCmp(DecOf(thr, ThresholdPlaces), DecAbs(change_percent)) >= 0
    IN  [symbol |-> validate_stock_symbol(symbol).value,
         previous_price |-> previous.price,
         current_price |-> current.price,
         change_amount |-> change_amount,
         change_percent |-> change_percent,
         threshold_exceeded |-> threshold_exceeded,
         previous_timestamp |-> previous.timestamp,
         current_timestamp |-> current.timestamp]

(* PriceChange.calculate *)
calculate(symbol, previous, current, thr) ==
    LET change_amount == current.price - previous.price
        change_percent == DecTimes100(change_ratio(change_amount, previous.price))
        threshold_exceeded ==
            DecCmp(DecAbs(change_percent), DecOf(thr, ThresholdPlaces)) >= 0
    IN  [symbol |-> validate_stock_symbol(symbol).value,
         previous_price |-> previous.price,
         current_price |-> current.price,
         change_amount |-> change_amount,
         change_percent |-> change_percent,
         threshold_exceeded |-> threshold_exceeded,
         previous_timestamp |-> previous.timestamp,
         current_timestamp |-> current.timestamp]

----------------------------------------------------------------------------
(* State machine of the orchestrator *)

(* the most recent successful provider fetch: who asked, what was cached *)
NoFill == [symbol |-> <<>>, quote |-> NoQuote, expires_at |-> 0]

NoEntry == [quote |-> NoQuote, expires_at |-> 0]

NoCall == [op |-> "none", symbol |-> <<>>, time |-> 0, outcomes |-> <<>>,
           ok |-> FALSE, hit |-> FALSE, quote |-> NoQuote, invoked |-> <<>>,
           error |-> NoError, prior |-> NoFill, entry |-> NoEntry]

InitOrch ==
    /\ cache = <<>>
    /\ now = 0
    /\ lastCall = NoCall
    /\ lastFill = NoFill

NoCalc == [previous |-> 0, current |-> 0, threshold |-> 0, result |-> NoChange]

InitCalc == change = NoCalc

NoRun == [op |-> "none", symbols |-> <<>>, fetched |-> <<>>,
          current_prices |-> <<>>, changes |-> <<>>, breaches |-> <<>>,
          raised |-> FALSE, before |-> <<>>]

DefaultThreshold == 150

InitStore ==
    /\ history = <<>>
    /\ threshold = DefaultThreshold
    /\ lastRun = NoRun

NoQuery == [op |-> "none", symbol |-> <<>>, limit |-> 0, point |-> NoPoint,
            points |-> <<>>, id |-> 0]

InitQuery ==
    /\ savedPoints = <<>>
    /\ lastQuery = NoQuery

NoProbe == [op |-> "none", provider |-> "none", api_key |-> <<>>,
            symbol |-> <<>>, response |-> NoResponse, ok |-> FALSE,
            quote |-> NoQuote, error |-> NoError, requests |-> 0,
            raised |-> NoError]

NoService == [settings |-> <<>>, providers |-> <<>>]

NoBuilt == [model |-> "none", symbol |-> <<>>, prices |-> <<>>, ok |-> FALSE,
            stored |-> <<>>, object |-> <<>>]

InitProbe ==
    /\ probe = NoProbe
    /\ service = NoService
    /\ built = NoBuilt

(* no run of the pipeline is under way; the fields after changes are the  *)
(* history of the run: whether the previous point was read and how many   *)
(* rows the store held then, the row the step wrote, the last point the   *)
(* run saved, the step just completed, and the last point saved by a run  *)
(* that crashed                                                           *)
NoStep == [symbol |-> <<>>, current |-> NoPoint, previous |-> NoPoint,
           read_rows |-> 0, saved_row |-> 0, read |-> FALSE, compared |-> FALSE]

NoJob == [pc |-> "idle", symbols |-> <<>>, i |-> 0, current_prices |-> <<>>,
          previous |-> NoPoint, changes |-> <<>>,
          read |-> FALSE, read_rows |-> 0,
          saved_row |-> 0, saved |-> NoPoint, done |-> NoStep, crash |-> NoPoint]

InitSteps == run = NoJob

Init == InitOrch /\ InitCalc /\ InitStore /\ InitQuery /\ InitProbe /\ InitSteps

(* the clock advances between calls *)
Tick ==
    /\ now < MaxTime
    /\ now' = now + 1
    /\ UNCHANGED <<cache, lastCall, lastFill, calcVars, queryVars, probeVars, stepVars, storeVars>>

(* a caller invokes MarketDataService.get_latest_price(symbol) *)
GetLatestPrice(symbol, outcomes, price) ==
    LET r == svc_get_latest_price(cache, now, symbol, outcomes, price)
    IN  /\ r.now <= MaxTime
        /\ cache' = r.cache
        /\ now' = r.now
        /\ lastCall' = [op |-> "get_latest_price", symbol |-> symbol,
                        time |-> now, outcomes |-> outcomes,
                        ok |-> r.ok, hit |-> r.hit, quote |-> r.quote,
                        invoked |-> r.invoked, error |-> r.error,
                        prior |-> lastFill,
                        entry |-> IF Upper(symbol) \in DOMAIN cache
                                  THEN cache[Upper(symbol)] ELSE NoEntry]
        /\ lastFill' = IF r.ok /\ ~r.hit
                       THEN [symbol |-> symbol, quote |-> r.quote,
                             expires_at |-> r.now + CacheTtl]
                       ELSE lastFill
        /\ UNCHANGED <<calcVars, queryVars, probeVars, stepVars, storeVars>>

(* MarketDataService.clear_cache *)
ClearCache ==
    /\ cache # <<>>
    /\ cache' = <<>>
    /\ lastFill' = NoFill
    /\ lastCall' = [NoCall EXCEPT !.op = "clear_cache", !.time = now]
    /\ UNCHANGED <<now, calcVars, queryVars, probeVars, stepVars, storeVars>>

(* outcome vectors of the caching runs: first provider answers, second *)
(* answers after the first is rate limited, nobody answers             *)
CacheOutcomes ==
    {<<"ok", "ok", "ok">>,
     <<"RateLimitError", "ok", "ok">>,
     <<"RateLimitError", "ProviderUnavailableError", "ValueError">>}

Next ==
    \/ Tick
    \/ \E symbol \in RawSymbols, outcomes \in CacheOutcomes :
            GetLatestPrice(symbol, outcomes, QuotePrice)
    \/ ClearCache

Spec == Init /\ [][Next]_vars

(* fallback runs: every outcome vector, cache emptied at will, clock at rest *)
FallbackSymbols == {SymLower, SymPadded}

NextFallback ==
    \/ \E symbol \in FallbackSymbols, outcomes \in Outcomes :
            GetLatestPrice(symbol, outcomes, QuotePrice)
    \/ ClearCache

SpecFallback == Init /\ [][NextFallback]_vars

----------------------------------------------------------------------------
(* The change detector on its own: PriceChange.calculate applied to pairs *)
(* of price points and a threshold                                        *)

CalcPrices == {300, 400, 500, 9850, 10000, 10050, 10150}

CalcThresholds == {-100, 0, 50, 150, 200}

Calculate(previous, current, thr) ==
    /\ change' = [previous |-> previous, current |-> current, threshold |-> thr,
                  result |-> calculate(SymLower,
                                PricePoint(SymUpper, previous, 0, "USD").point,
                                PricePoint(SymUpper, current, 1, "USD").point,
                                thr)]
    /\ UNCHANGED <<orchVars, storeVars, queryVars, probeVars, stepVars>>

NextCalc ==
    \E previous \in CalcPrices, current \in CalcPrices, thr \in CalcThresholds :
        Calculate(previous, current, thr)

SpecCalc == Init /\ [][NextCalc]_vars

(* The models on their own: constructions with well formed and malformed *)
(* symbols and prices                                                    *)

SymBlank == <<" ", " ">>

SymInnerSpace == <<"A", " ", "P">>

SymMarks == <<"^", "a", "-", "p", ".", "l">>

SymTen == <<"A", "A", "P", "L", "M", "S", "F", "T", "0", "1">>

SymEleven == <<"A", "A", "P", "L", "M", "S", "F", "T", "0", "1", "2">>

SymElevenPadded == <<" ", "A", "A", "P", "L", "M", "S", "F", "T", "0", " ">>

ModelSymbols == {<<>>, SymBlank, SymLower, SymPadded, SymBad, SymInnerSpace,
                 SymMarks, SymTen, SymEleven, SymElevenPadded}

ModelPrices == {0 - 100, 0, 1, QuotePrice}

Built(model, symbol, prices, ok, stored, object) ==
    [model |-> model, symbol |-> symbol, prices |-> prices, ok |-> ok,
     stored |-> stored, object |-> object]

(* PriceQuote(symbol=..., price=..., ...) *)
NewPriceQuote(symbol, price) ==
    /\ \E r \in {PriceQuote(symbol, price, now, "finnhub")} :
            built' = Built("PriceQuote", symbol, <<price>>, r.ok,
                           r.quote.symbol, IF r.ok THEN <<r.quote>> ELSE <<>>)
    /\ UNCHANGED <<orchVars, calcVars, storeVars, queryVars, probe, service, stepVars>>

(* PricePoint(symbol=..., price=..., ...) *)
NewPricePoint(symbol, price) ==
    /\ \E r \in {PricePoint(symbol, price, now, "USD")} :
            built' = Built("PricePoint", symbol, <<price>>, r.ok,
                           r.point.symbol, IF r.ok THEN <<r.point>> ELSE <<>>)
    /\ UNCHANGED <<orchVars, calcVars, storeVars, queryVars, probe, service, stepVars>>

(* PriceChange(symbol=..., previous_price=..., current_price=..., ...) *)
NewPriceChange(symbol, previous_price, current_price) ==
    /\ \E r \in {PriceChange(symbol, previous_price, current_price,
                              current_price - previous_price, DecZero, FALSE,
                              now, now)} :
            built' = Built("PriceChange", symbol, <<previous_price, current_price>>,
                           r.ok, r.change.symbol,
                           IF r.ok THEN <<r.change>> ELSE <<>>)
    /\ UNCHANGED <<orchVars, calcVars, storeVars, queryVars, probe, service, stepVars>>

NextModels ==
    \/ \E symbol \in ModelSymbols, price \in ModelPrices : NewPriceQuote(symbol, price)
    \/ \E symbol \in ModelSymbols, price \in ModelPrices : NewPricePoint(symbol, price)
    \/ \E symbol \in ModelSymbols, previous_price \in ModelPrices,
          current_price \in ModelPrices :
            NewPriceChange(symbol, previous_price, current_price)

SpecModels == Init /\ [][NextModels]_vars

----------------------------------------------------------------------------
(* StorageAdapter: the price_history table, rows in insertion order.  The *)
(* price column holds the text str(Decimal), the timestamp column the     *)
(* text sqlite3 writes for a datetime; both are parsed when a row is read. *)
(* Texts are sequences of characters.  A timestamp counts half seconds.   *)

DigitChars == <<"0", "1", "2", "3", "4", "5", "6", "7", "8", "9">>

DigitOf(c) == (CHOOSE n \in 1..10 : DigitChars[n] = c) - 1

(* the byte of a character, as the BINARY collation compares it *)
CharOrd(c) == IF c = "." THEN 46 ELSE 48 + DigitOf(c)

(* the decimal digits of n, at least width of them *)
RECURSIVE DigitText(_, _)
DigitText(n, width) ==
    IF n < 10 /\ width <= 1 THEN <<DigitChars[n + 1]>>
    ELSE Append(DigitText(n \div 10, width - 1), DigitChars[(n % 10) + 1])

RECURSIVE DigitValue(_, _, _)
DigitValue(text, i, acc) ==
    IF i > Len(text) THEN acc
    ELSE DigitValue(text, i + 1, 10 * acc + DigitOf(text[i]))

(* str(price) of a Decimal with two places, price in cents: "100.50" *)
decimal_str(price) ==
    DigitText(price \div 100, 1) \o <<".">> \o DigitText(price % 100, 2)

(* Decimal(text) of such a text, in cents *)
decimal_parse(text) ==
    LET dot == CHOOSE i \in 1..Len(text) : text[i] = "."
    IN  100 * DigitValue(SubSeq(text, 1, dot - 1), 1, 0)
            + DigitValue(SubSeq(text, dot + 1, Len(text)), 1, 0)

(* the sqlite3 datetime adapter, isoformat(" "): the seconds, and the     *)
(* fraction only when it is not zero                                      *)
adapt_datetime(t) ==
    DigitText(t \div 2, 2) \o (IF t % 2 = 1 THEN <<".", "5">> ELSE <<>>)

(* the sqlite3 TIMESTAMP converter *)
convert_timestamp(text) ==
    LET dots == {i \in 1..Len(text) : text[i] = "."}
    IN  IF dots = {} THEN 2 * DigitValue(text, 1, 0)
        ELSE LET dot == CHOOSE i \in dots : TRUE
             IN  2 * DigitValue(SubSeq(text, 1, dot - 1), 1, 0)
                    + (IF DigitOf(text[dot + 1]) >= 5 THEN 1 ELSE 0)

(* comparison of two TEXT values: bytewise, a proper prefix is smaller *)
RECURSIVE TextCmp(_, _, _)
TextCmp(a, b, i) ==
    IF i > Len(a) /\ i > Len(b) THEN 0
    ELSE IF i > Len(a) THEN -1
    ELSE IF i > Len(b) THEN 1
    ELSE IF CharOrd(a[i]) < CharOrd(b[i]) THEN -1
    ELSE IF CharOrd(a[i]) > CharOrd(b[i]) THEN 1
    ELSE TextCmp(a, b, i + 1)

(* a store that keeps one row per symbol and timestamp (INSERT OR REPLACE) *)
save_price_replace(rows, point) ==
    LET row == [id |-> Len(rows) + 1, symbol |-> point.symbol,
                price |-> decimal_str(point.price), currency |-> point.currency,
                timestamp |-> adapt_datetime(point.timestamp)]
        same(r) == r.symbol = row.symbol /\ r.timestamp = row.timestamp
        kept == SelectSeq(rows, LAMBDA r : ~same(r))
    IN  [rows |-> Append(kept, [row EXCEPT !.id = Len(kept) + 1]),
         id |-> Len(kept) + 1]

(* INSERT INTO price_history: a new row with the next AUTOINCREMENT id *)
save_price(rows, point) ==
    [rows |-> Append(rows, [id |-> Len(rows) + 1, symbol |-> point.symbol,
                            price |-> decimal_str(point.price),
                            currency |-> point.currency,
                            timestamp |-> adapt_datetime(point.timestamp)]),
     id |-> Len(rows) + 1]

(* the PricePoint built from a row *)
RowPoint(row) ==
    PricePoint(row.symbol, decimal_parse(row.price),
               convert_timestamp(row.timestamp), row.currency).point

(* WHERE symbol = key ORDER BY timestamp DESC: every order of the matching *)
(* rows that descends by timestamp (rows of equal timestamp in any order) *)
SelectOrdered(rows, key) ==
    LET idx == {i \in 1..Len(rows) : rows[i].symbol = key}
        n == Cardinality(idx)
    IN  {f \in [1..n -> idx] :
            /\ \A a, b \in 1..n : a # b => f[a] # f[b]
            /\ \A a, b \in 1..n : a < b =>
                  TextCmp(rows[f[a]].timestamp, rows[f[b]].timestamp, 1) >= 0}

(* StorageAdapter.get_latest_price: LIMIT 1; the possible answers are the *)
(* first rows of SelectOrdered, the matching rows of greatest timestamp   *)
storage_get_latest_price(rows, symbol) ==
    LET key == Upper(symbol)
        idx == {i \in 1..Len(rows) : rows[i].symbol = key}
    IN  IF idx = {} THEN {NoPoint}
        ELSE {RowPoint(rows[i]) :
                 i \in {j \in idx : \A k \in idx :
                          TextCmp(rows[j].timestamp, rows[k].timestamp, 1) >= 0}}

(* a history that returns the rows in insertion order *)
get_price_history_unordered(rows, symbol, limit) ==
    LET key == Upper(symbol)
        matching == SelectSeq(rows, LAMBDA r : r.symbol = key)
    IN  {[k \in 1..(IF Len(matching) < limit THEN Len(matching) ELSE limit) |->
             RowPoint(matching[k])]}

(* a previous that takes the row inserted before the last one *)
get_previous_price_by_id(rows, symbol) ==
    LET key == Upper(symbol)
        matching == SelectSeq(rows, LAMBDA r : r.symbol = key)
    IN  {IF Len(matching) >= 2 THEN RowPoint(matching[Len(matching) - 1])
         ELSE NoPoint}

(* StorageAdapter.get_previous_price: LIMIT 1 OFFSET 1 *)
get_previous_price(rows, symbol) ==
    {IF Len(f) >= 2 THEN RowPoint(rows[f[2]]) ELSE NoPoint :
        f \in SelectOrdered(rows, Upper(symbol))}

(* StorageAdapter.get_price_history: LIMIT limit *)
get_price_history(rows, symbol, limit) ==
    {[k \in 1..(IF Len(f) < limit THEN Len(f) ELSE limit) |-> RowPoint(rows[f[k]])] :
        f \in SelectOrdered(rows, Upper(symbol))}

StoreSymbols == {SymLower, SymOther}

StoreStamps == {2, 3, 4}

(* the price of the n-th point saved *)
StorePrice(n) == 10000 + 50 * n

(* a caller saves PricePoint(symbol, price, timestamp) *)
SavePrice(symbol, price, timestamp) ==
    LET point == PricePoint(symbol, price, timestamp, "USD")
        saved == save_price(history, point.point)
    IN  /\ Len(history) < MaxRows
        /\ point.ok
        /\ history' = saved.rows
        /\ savedPoints' = Append(savedPoints, point.point)
        /\ lastQuery' = [NoQuery EXCEPT !.op = "save_price", !.symbol = symbol,
                                        !.point = point.point, !.id = saved.id]
        /\ UNCHANGED <<orchVars, calcVars, threshold, lastRun, probeVars, stepVars>>

(* a caller invokes StorageAdapter.get_latest_price(symbol) *)
StoredLatestPrice(symbol) ==
    /\ \E point \in storage_get_latest_price(history, symbol) :
          lastQuery' = [NoQuery EXCEPT !.op = "get_latest_price",
                                      !.symbol = symbol, !.point = point]
    /\ UNCHANGED <<orchVars, calcVars, storeVars, savedPoints, probeVars, stepVars>>

(* a caller invokes StorageAdapter.get_previous_price(symbol) *)
StoredPreviousPrice(symbol) ==
    /\ \E point \in get_previous_price(history, symbol) :
          lastQuery' = [NoQuery EXCEPT !.op = "get_previous_price",
                                      !.symbol = symbol, !.point = point]
    /\ UNCHANGED <<orchVars, calcVars, storeVars, savedPoints, probeVars, stepVars>>

(* a caller invokes StorageAdapter.get_price_history(symbol, limit) *)
StoredPriceHistory(symbol, limit) ==
    /\ \E points \in get_price_history(history, symbol, limit) :
          lastQuery' = [NoQuery EXCEPT !.op = "get_price_history",
                                      !.symbol = symbol, !.limit = limit,
                                      !.points = points]
    /\ UNCHANGED <<orchVars, calcVars, storeVars, savedPoints, probeVars, stepVars>>

NextStore ==
    \/ \E symbol \in StoreSymbols, timestamp \in StoreStamps :
          SavePrice(symbol, StorePrice(Len(history) + 1), timestamp)
    \/ \E symbol \in StoreSymbols : StoredLatestPrice(symbol)
    \/ \E symbol \in StoreSymbols : StoredPreviousPrice(symbol)
    \/ \E symbol \in StoreSymbols, limit \in 1..MaxRows :
          StoredPriceHistory(symbol, limit)

SpecStore == Init /\ [][NextStore]_vars

----------------------------------------------------------------------------
(* The provider adapters (adapters/providers).  What a data source gives   *)
(* to one call is a record: whether the transport completes, the HTTP      *)
(* status, whether the body is JSON, what the body carries (a quote, the   *)
(* provider's error field, Alpha Vantage's "Note", or nothing known), the  *)
(* message of that field, the price field, and for Yahoo the close of the  *)
(* one-day history.  A price field is absent, not a number, or a number    *)
(* of cents.                                                               *)

(* The adapters that need an API key: Finnhub, Twelve Data, Alpha Vantage *)
KeyedProviders == {"finnhub", "twelve_data", "alpha_vantage"}

(* messages a source sends *)
MsgLimit == <<"API ", "Limit", " reached">>

MsgQuota == <<"Quota", " exceeded">>

MsgInvalid == <<"Invalid symbol">>

MsgTimeout == <<"Connection timeout">>

MsgTooMany == <<"HTTP Error ", "4", "2", "9", ": ", "Too Many Requests">>

(* str.lower() on the fragments of a message *)
LowerFragment(f) ==
    CASE f = "Limit" -> "limit"
      [] f = "Quota" -> "quota"
      [] OTHER -> f

Lower(message) == [i \in 1..Len(message) |-> LowerFragment(message[i])]

(* repr of a Decimal price in cents, sign included: Decimal('-429.00') *)
decimal_repr(price) ==
    <<"Decimal('">>
    \o (IF price < 0 THEN <<"-">> ELSE <<>>)
    \o DigitText((IF price < 0 THEN -price ELSE price) \div 100, 1)
    \o <<".">>
    \o DigitText((IF price < 0 THEN -price ELSE price) % 100, 2)
    \o <<"')">>

(* exceptions other than the two provider errors, with their str(e) *)
RequestException(message) == [type |-> "RequestException", text |-> message]

JSONDecodeError == [type |-> "JSONDecodeError", text |-> <<"Expecting value">>]

InvalidOperation ==
    [type |-> "InvalidOperation", text |-> <<"[<class 'decimal.ConversionSyntax'>]">>]

(* pydantic's ValidationError of PriceQuote: the text names the field and *)
(* shows the rejected input                                               *)
ValidationError(symbol, price) ==
    [type |-> "ValidationError",
     text |-> IF price > 0
              THEN <<"1 validation error for PriceQuote ", "symbol ",
                     "input_value='">> \o symbol \o <<"'">>
              ELSE <<"1 validation error for PriceQuote ", "price ",
                     "Input should be greater than 0 ", "input_value=">>
                   \o decimal_repr(price)]

Raised(e) == [ok |-> FALSE, quote |-> NoQuote, error |-> e]

Returned(q) == [ok |-> TRUE, quote |-> q, error |-> NoError]

(* Decimal(...) of the price field and PriceQuote(symbol.upper(), ...) *)
build_quote(name, symbol, field, t) ==
    IF field.text = "garbage" THEN Raised(InvalidOperation)
    ELSE LET q == PriceQuote(Upper(symbol), field.value, t, name)
         IN  IF q.ok THEN Returned(q.quote)
             ELSE Raised(ValidationError(Upper(symbol), field.value))

(* an adapter that takes no error text for a limit message *)
body_error_unavailable(name, response) ==
    ProviderUnavailableError(name, response.message)

(* the error field of a 200 body, as each adapter reads it *)
body_error(name, response) ==
    CASE name = "finnhub" ->
            IF Contains(Lower(response.message), <<"limit">>)
            THEN RateLimitError(name, response.message)
            ELSE ProviderUnavailableError(name, response.message)
      [] name = "twelve_data" ->
            IF \/ Contains(Lower(response.message), <<"limit">>)
               \/ Contains(Lower(response.message), <<"quota">>)
            THEN RateLimitError(name, response.message)
            ELSE ProviderUnavailableError(name, response.message)
      [] OTHER -> ProviderUnavailableError(name, response.message)

(* the body of the try block of a keyed adapter: a quote or what is raised *)
keyed_provider_try(name, symbol, response, t) ==
    IF ~response.transport THEN Raised(RequestException(response.message))
    ELSE IF response.status = 429
    THEN Raised(RateLimitError(name, <<"API call frequency limit exceeded">>))
    ELSE IF response.status # 200
    THEN Raised(ProviderUnavailableError(name, <<"HTTP ", ToString(response.status)>>))
    ELSE IF ~response.json THEN Raised(JSONDecodeError)
    ELSE IF response.tag = "error" THEN Raised(body_error(name, response))
    ELSE IF response.tag = "note" /\ name = "alpha_vantage"
    THEN Raised(RateLimitError(name, response.message))
    ELSE IF response.tag = "empty" /\ name = "alpha_vantage"
    THEN Raised(ProviderUnavailableError(name, <<"No data for ">> \o symbol))
    ELSE IF response.tag # "quote" \/ response.price.text = "none"
    THEN Raised(ProviderUnavailableError(name, <<"No price data for ">> \o symbol))
    ELSE build_quote(name, symbol, response.price, t)

(* handlers that stop at requests.exceptions.RequestException *)
keyed_provider_except_narrow(name, e) ==
    IF e.type \in {"RateLimitError", "ProviderUnavailableError"} THEN e
    ELSE IF e.type = "RequestException" THEN ProviderUnavailableError(name, e.text)
    ELSE e

(* the except clauses of a keyed adapter: the two provider errors pass,   *)
(* a RequestException and any other Exception become unavailable          *)
keyed_provider_except(name, e) ==
    IF e.type \in {"RateLimitError", "ProviderUnavailableError"} THEN e
    ELSE IF e.type = "RequestException" THEN ProviderUnavailableError(name, e.text)
    ELSE ProviderUnavailableError(name, e.text)

(* the request of an adapter, after the key check: try and handlers *)
keyed_provider_request(name, symbol, response, t) ==
    LET r == keyed_provider_try(name, symbol, response, t)
    IN  IF r.ok THEN [ok |-> TRUE, quote |-> r.quote, error |-> NoError,
                      raised |-> NoError]
        ELSE [ok |-> FALSE, quote |-> NoQuote,
              error |-> keyed_provider_except(name, r.error), raised |-> r.error]

(* an adapter that notices the missing key only after the request *)
keyed_provider_get_latest_price_late(name, api_key, symbol, response, t) ==
    LET r == keyed_provider_request(name, symbol, response, t)
    IN  IF api_key = <<>>
        THEN [ok |-> FALSE, quote |-> NoQuote, requests |-> 1,
              error |-> ProviderUnavailableError(name, <<"API key not configured">>),
              raised |-> ProviderUnavailableError(name, <<"API key not configured">>)]
        ELSE [ok |-> r.ok, quote |-> r.quote, requests |-> 1, error |-> r.error,
              raised |-> r.raised]

(* FinnhubProvider / TwelveDataProvider / AlphaVantageProvider            *)
(* .get_latest_price(symbol): the result and the number of HTTP requests  *)
keyed_provider_get_latest_price(name, api_key, symbol, response, t) ==
    IF api_key = <<>>
    THEN [ok |-> FALSE, quote |-> NoQuote, requests |-> 0,
          error |-> ProviderUnavailableError(name, <<"API key not configured">>),
          raised |-> ProviderUnavailableError(name, <<"API key not configured">>)]
    ELSE LET r == keyed_provider_request(name, symbol, response, t)
         IN  [ok |-> r.ok, quote |-> r.quote, requests |-> 1, error |-> r.error,
              raised |-> r.raised]

(* "429" in text or "Too Many Requests" in text *)
signals_429(text) ==
    Contains(text, <<"4", "2", "9">>) \/ Contains(text, <<"Too Many Requests">>)

(* the body of the try block of YahooFinanceProvider.get_latest_price *)
yahoo_try(symbol, response, t) ==
    IF ~response.transport THEN Raised(RequestException(response.message))
    ELSE IF response.tag = "error" /\ signals_429(response.message)
    THEN Raised(RateLimitError("yahoo_finance", <<"Too many requests">>))
    ELSE IF response.price.text # "none"
    THEN build_quote("yahoo_finance", symbol, response.price, t)
    ELSE IF response.close.text = "none"
    THEN Raised(ProviderUnavailableError("yahoo_finance",
                    <<"No price data available for ">> \o symbol))
    ELSE build_quote("yahoo_finance", symbol, response.close, t)

(* the except clauses of the Yahoo adapter *)
yahoo_except(e) ==
    IF e.type \in {"RateLimitError", "ProviderUnavailableError"} THEN e
    ELSE IF signals_429(e.text) THEN RateLimitError("yahoo_finance", e.text)
    ELSE ProviderUnavailableError("yahoo_finance", e.text)

(* YahooFinanceProvider.get_latest_price(symbol) *)
yahoo_get_latest_price(symbol, response, t) ==
    LET r == yahoo_try(symbol, response, t)
    IN  IF r.ok THEN [ok |-> TRUE, quote |-> r.quote, requests |-> 1,
                      error |-> NoError, raised |-> NoError]
        ELSE [ok |-> FALSE, quote |-> NoQuote, requests |-> 1,
              error |-> yahoo_except(r.error), raised |-> r.error]

(* the priority order of the factory *)
FactoryOrder == <<"finnhub", "twelve_data", "alpha_vantage", "yahoo_finance">>

(* an API key of the settings: unset, blank, set *)
ApiKeys == {<<>>, <<" ">>, <<"k", "e", "y">>}

Provider(name, api_key) == [name |-> name, api_key |-> api_key]

(* a factory that leaves Yahoo out once a keyed provider is configured *)
create_market_data_service_keyed_first(finnhub_api_key, twelve_data_api_key, alpha_vantage_api_key) ==
    LET keyed == (IF finnhub_api_key # <<>>
                  THEN <<Provider("finnhub", finnhub_api_key)>> ELSE <<>>)
                 \o (IF twelve_data_api_key # <<>>
                     THEN <<Provider("twelve_data", twelve_data_api_key)>> ELSE <<>>)
                 \o (IF alpha_vantage_api_key # <<>>
                     THEN <<Provider("alpha_vantage", alpha_vantage_api_key)>>
                     ELSE <<>>)
    IN  IF keyed # <<>> THEN keyed ELSE <<Provider("yahoo_finance", <<>>)>>

(* create_market_data_service(settings): the provider list of the service *)
create_market_data_service(finnhub_api_key, twelve_data_api_key, alpha_vantage_api_key) ==
    (IF finnhub_api_key # <<>>
     THEN <<Provider("finnhub", finnhub_api_key)>> ELSE <<>>)
    \o (IF twelve_data_api_key # <<>>
        THEN <<Provider("twelve_data", twelve_data_api_key)>> ELSE <<>>)
    \o (IF alpha_vantage_api_key # <<>>
        THEN <<Provider("alpha_vantage", alpha_vantage_api_key)>> ELSE <<>>)
    \o <<Provider("yahoo_finance", <<>>)>>

(* what the sources answer to a keyed adapter *)
KeyedResponses ==
    {Resp(FALSE, 0, FALSE, "none", MsgTimeout, NoField, NoField),
     Resp(TRUE, 429, TRUE, "quote", <<>>, Num(QuotePrice), NoField),
     Resp(TRUE, 500, FALSE, "none", <<>>, NoField, NoField),
     Resp(TRUE, 404, TRUE, "error", MsgLimit, NoField, NoField),
     Resp(TRUE, 200, FALSE, "none", <<>>, NoField, NoField),
     Resp(TRUE, 200, TRUE, "error", MsgLimit, NoField, NoField),
     Resp(TRUE, 200, TRUE, "error", MsgQuota, NoField, NoField),
     Resp(TRUE, 200, TRUE, "error", MsgInvalid, NoField, NoField),
     Resp(TRUE, 200, TRUE, "note", MsgLimit, NoField, NoField),
     Resp(TRUE, 200, TRUE, "empty", <<>>, NoField, NoField),
     Resp(TRUE, 200, TRUE, "quote", <<>>, NoField, NoField),
     Resp(TRUE, 200, TRUE, "quote", <<>>, Garbage, NoField),
     Resp(TRUE, 200, TRUE, "quote", <<>>, Num(0), NoField),
     Resp(TRUE, 200, TRUE, "quote", <<>>, Num(0 - 42900), NoField),
     Resp(TRUE, 200, TRUE, "quote", <<>>, Num(QuotePrice), NoField)}

(* what yfinance answers: an exception, an info dict, a one-day history *)
YahooResponses ==
    {Resp(FALSE, 0, FALSE, "none", MsgTimeout, NoField, NoField),
     Resp(FALSE, 0, FALSE, "none", MsgTooMany, NoField, NoField),
     Resp(TRUE, 200, TRUE, "error", MsgTooMany, NoField, NoField),
     Resp(TRUE, 200, TRUE, "error", MsgInvalid, NoField, NoField),
     Resp(TRUE, 200, TRUE, "quote", <<>>, NoField, NoField),
     Resp(TRUE, 200, TRUE, "quote", <<>>, NoField, Num(QuotePrice)),
     Resp(TRUE, 200, TRUE, "quote", <<>>, NoField, Num(0)),
     Resp(TRUE, 200, TRUE, "quote", <<>>, Garbage, NoField),
     Resp(TRUE, 200, TRUE, "quote", <<>>, Num(0), NoField),
     Resp(TRUE, 200, TRUE, "quote", <<>>, Num(0 - 100), NoField),
     Resp(TRUE, 200, TRUE, "quote", <<>>, Num(0 - 42900), NoField),
     Resp(TRUE, 200, TRUE, "quote", <<>>, Num(QuotePrice), NoField)}

(* symbols the adapters are asked for: well formed, padded, malformed *)
ProbeSymbols == {SymLower, SymPadded, SymBad}

(* a caller invokes get_latest_price(symbol) of one keyed adapter *)
ProviderGetLatestPrice(name, api_key, symbol, response) ==
    LET r == keyed_provider_get_latest_price(name, api_key, symbol, response, now)
    IN  /\ probe' = [op |-> "get_latest_price", provider |-> name,
                     api_key |-> api_key, symbol |-> symbol,
                     response |-> response, ok |-> r.ok, quote |-> r.quote,
                     error |-> r.error, requests |-> r.requests,
                     raised |-> r.raised]
        /\ UNCHANGED <<orchVars, calcVars, storeVars, queryVars, service, built, stepVars>>

(* a caller invokes YahooFinanceProvider.get_latest_price(symbol) *)
YahooGetLatestPrice(symbol, response) ==
    LET r == yahoo_get_latest_price(symbol, response, now)
    IN  /\ probe' = [op |-> "get_latest_price", provider |-> "yahoo_finance",
                     api_key |-> <<>>, symbol |-> symbol,
                     response |-> response, ok |-> r.ok, quote |-> r.quote,
                     error |-> r.error, requests |-> r.requests,
                     raised |-> r.raised]
        /\ UNCHANGED <<orchVars, calcVars, storeVars, queryVars, service, built, stepVars>>

(* the application builds its service from the settings *)
CreateMarketDataService(finnhub_api_key, twelve_data_api_key, alpha_vantage_api_key) ==
    /\ service' = [settings |-> <<finnhub_api_key, twelve_data_api_key,
                                  alpha_vantage_api_key>>,
                   providers |-> create_market_data_service(finnhub_api_key,
                                     twelve_data_api_key, alpha_vantage_api_key)]
    /\ UNCHANGED <<orchVars, calcVars, storeVars, queryVars, probe, built, stepVars>>

NextProvider ==
    \/ \E name \in KeyedProviders, api_key \in ApiKeys, symbol \in ProbeSymbols,
          response \in KeyedResponses :
            ProviderGetLatestPrice(name, api_key, symbol, response)
    \/ \E symbol \in ProbeSymbols, response \in YahooResponses :
            YahooGetLatestPrice(symbol, response)

SpecProvider == Init /\ [][NextProvider]_vars

(* what the sources answer to the providers of a built service *)
ServiceResponses ==
    {Resp(FALSE, 0, FALSE, "none", MsgTimeout, NoField, NoField),
     Resp(TRUE, 200, TRUE, "quote", <<>>, NoField, NoField),
     Resp(TRUE, 200, TRUE, "quote", <<>>, Num(QuotePrice), NoField)}

(* the built service asks the provider at place i of its list *)
AskProvider(i, symbol, response) ==
    /\ i \in 1..Len(service.providers)
    /\ \E r \in {IF service.providers[i].name = "yahoo_finance"
                  THEN yahoo_get_latest_price(symbol, response, now)
                  ELSE keyed_provider_get_latest_price(service.providers[i].name,
                           service.providers[i].api_key, symbol, response, now)} :
            probe' = [op |-> "get_latest_price",
                      provider |-> service.providers[i].name,
                      api_key |-> service.providers[i].api_key,
                      symbol |-> symbol, response |-> response, ok |-> r.ok,
                      quote |-> r.quote, error |-> r.error,
                      requests |-> r.requests, raised |-> r.raised]
    /\ UNCHANGED <<orchVars, calcVars, storeVars, queryVars, service, built, stepVars>>

NextFactory ==
    \/ \E finnhub_api_key \in ApiKeys, twelve_data_api_key \in ApiKeys,
          alpha_vantage_api_key \in ApiKeys :
            CreateMarketDataService(finnhub_api_key, twelve_data_api_key,
                                    alpha_vantage_api_key)
    \/ \E i \in 1..Len(FactoryOrder), symbol \in {SymLower, SymPadded},
          response \in ServiceResponses :
            AskProvider(i, symbol, response)

SpecFactory == Init /\ [][NextFactory]_vars

----------------------------------------------------------------------------
(* PriceService: the breach pipeline *)

(* quote_to_price_point *)
quote_to_price_point(quote) ==
    PricePoint(quote.symbol, quote.price, quote.timestamp, "USD").point

(* a fetch loop that lets the failure of one symbol end the run *)
fetch_one_abort(symbols, inputs, i, results, fetched, symbol_upper, r) ==
    [results |-> results, fetched |-> Append(fetched, r.ok),
     cache |-> r.cache, now |-> r.now, raised |-> ~r.ok]

(* PriceService.fetch_current_prices, from symbol i on: the dictionary of *)
(* fetched points keyed by symbol.upper(); a symbol whose fetch raises    *)
(* MarketDataUnavailableError is skipped, any other error ends the run.   *)
(* fetched[i] tells whether the fetch of symbols[i] returned a quote.     *)
RECURSIVE fetch_current_prices(_, _, _, _, _, _, _)
(* the body of its loop for symbol i, r the outcome of get_latest_price *)
fetch_one(symbols, inputs, i, results, fetched, symbol_upper, r) ==
    IF r.ok
    THEN fetch_current_prices(symbols, inputs, i + 1, r.cache, r.now,
             [k \in (DOMAIN results) \cup {symbol_upper} |->
                 IF k = symbol_upper THEN quote_to_price_point(r.quote)
                 ELSE results[k]],
             Append(fetched, TRUE))
    ELSE IF r.error.type = "MarketDataUnavailableError"
    THEN fetch_current_prices(symbols, inputs, i + 1, r.cache, r.now, results,
                              Append(fetched, FALSE))
    ELSE [results |-> results, fetched |-> Append(fetched, FALSE),
          cache |-> r.cache, now |-> r.now, raised |-> TRUE]

fetch_current_prices(symbols, inputs, i, c, t, results, fetched) ==
    IF i > Len(symbols)
    THEN [results |-> results, fetched |-> fetched, cache |-> c, now |-> t,
          raised |-> FALSE]
    ELSE fetch_one(symbols, inputs, i, results, fetched, Upper(symbols[i]),
                   svc_get_latest_price(c, t, Upper(symbols[i]),
                                        inputs[i].outcomes, inputs[i].price))

(* the loop of PriceService.get_price_changes, from symbol i on: the      *)
(* possible outcomes [history, changes]                                   *)
RECURSIVE price_changes_loop(_, _, _, _, _, _)
price_changes_loop(symbols, i, current_prices, rows, changes, thr) ==
    IF i > Len(symbols)
    THEN {[history |-> rows, changes |-> changes]}
    ELSE LET symbol == Upper(symbols[i])
         IN  IF symbol \notin DOMAIN current_prices
             THEN price_changes_loop(symbols, i + 1, current_prices, rows, changes, thr)
             ELSE LET current == current_prices[symbol]
                      saved == save_price(rows, current).rows
                  IN  UNION {
                        IF previous = NoPoint
                        THEN price_changes_loop(symbols, i + 1, current_prices,
                                                saved, changes, thr)
                        ELSE price_changes_loop(symbols, i + 1, current_prices, saved,
                                Append(changes,
                                       calculate(symbol, previous, current, thr)),
                                thr)
                        : previous \in storage_get_latest_price(rows, symbol)}

Exceeded(c) == c.threshold_exceeded

(* a filter that returns every change *)
select_breaches_all(all_changes) == all_changes

(* the filter of PriceService.get_threshold_breaches *)
select_breaches(all_changes) == SelectSeq(all_changes, Exceeded)

(* the points a run saves: the fetched point of every entry that has one *)
RECURSIVE SavedBy(_, _, _)
SavedBy(symbols, i, current_prices) ==
    IF i > Len(symbols) THEN <<>>
    ELSE (IF Upper(symbols[i]) \in DOMAIN current_prices
          THEN <<current_prices[Upper(symbols[i])]>> ELSE <<>>)
         \o SavedBy(symbols, i + 1, current_prices)

(* the record of a run over symbols that started from the store rows *)
RunRecord(symbols, fetched, changes, raised) ==
    [op |-> "get_threshold_breaches",
     symbols |-> symbols,
     fetched |-> fetched.fetched,
     current_prices |-> fetched.results,
     changes |-> changes,
     breaches |-> select_breaches(changes),
     raised |-> raised,
     before |-> history]

(* PriceService.get_threshold_breaches(symbols): fetch, compare with the  *)
(* stored latest point, store the current point, return the breaches      *)
GetThresholdBreaches(symbols, inputs) ==
    \E fetched \in {fetch_current_prices(symbols, inputs, 1, cache, now,
                                         <<>>, <<>>)} :
        /\ fetched.now <= MaxTime
        /\ IF fetched.raised
           THEN /\ history' = history
                /\ savedPoints' = savedPoints
                /\ lastRun' = RunRecord(symbols, fetched, <<>>, TRUE)
           ELSE \E res \in price_changes_loop(symbols, 1, fetched.results, history,
                                              <<>>, threshold) :
                  /\ Len(res.history) <= MaxRows
                  /\ history' = res.history
                  /\ savedPoints' = savedPoints
                                       \o SavedBy(symbols, 1, fetched.results)
                  /\ lastRun' = RunRecord(symbols, fetched, res.changes, FALSE)
        /\ cache' = fetched.cache
        /\ now' = fetched.now
        /\ UNCHANGED <<lastCall, lastFill, calcVars, lastQuery, probeVars, stepVars, threshold>>

(* PriceService(data_dir, threshold, market_data_service): a new service  *)
(* over the same data directory, with a new orchestrator as in main.  In  *)
(* the pipeline the clock advances with every provider fetch.             *)
NewPriceService ==
    /\ lastRun.op # "none"
    /\ cache # <<>>
    /\ cache' = <<>>
    /\ lastFill' = NoFill
    /\ UNCHANGED <<now, lastCall, calcVars, queryVars, probeVars, stepVars, storeVars>>

PipelinePrices == {10000, 10200}

PipelineThresholds == {0, 200}

AllOk == <<"ok", "ok", "ok">>

NoneOk == <<"RateLimitError", "ProviderUnavailableError", "ValueError">>

PipelineInputs ==
    {[outcomes |-> AllOk, price |-> p] : p \in PipelinePrices}
        \cup {[outcomes |-> NoneOk, price |-> 10000]}

Batches == {<<SymLower>>, <<SymPadded>>, <<SymLower, SymOther>>,
            <<SymUpper, SymUpper>>}

InitPipeline ==
    /\ InitOrch
    /\ InitCalc
    /\ InitQuery
    /\ InitProbe
    /\ InitSteps
    /\ history = <<>>
    /\ threshold \in PipelineThresholds
    /\ lastRun = NoRun

NextPipeline ==
    \/ NewPriceService
    \/ \E symbols \in Batches :
         \E inputs \in [1..Len(symbols) -> PipelineInputs] :
            GetThresholdBreaches(symbols, inputs)

SpecPipeline == InitPipeline /\ [][NextPipeline]_vars

----------------------------------------------------------------------------
(* The same pipeline step by step: one provider lookup per symbol, then   *)
(* for each symbol the read of the previous point, the save of the        *)
(* current one and the evaluation.  The process may die between any two   *)
(* steps; what it held in memory is lost, the committed rows stay.        *)

(* the three statements of the loop body, in program order *)
step_order_save_first == <<"save", "read", "evaluate">>

step_order == <<"read", "save", "evaluate">>

StepAfter(pc) ==
    IF pc = step_order[1] THEN step_order[2]
    ELSE IF pc = step_order[2] THEN step_order[3]
    ELSE step_order[1]

(* the loop is at a symbol that has a current price *)
Active ==
    /\ run.i <= Len(run.symbols)
    /\ Upper(run.symbols[run.i]) \in DOMAIN run.current_prices

CurrentSymbol == Upper(run.symbols[run.i])

CurrentPoint == run.current_prices[CurrentSymbol]

(* get_threshold_breaches(symbols) is entered *)
StartRun(symbols) ==
    /\ run.pc = "idle"
    /\ run' = [NoJob EXCEPT !.pc = "fetch", !.symbols = symbols, !.i = 1,
                            !.crash = run.crash]
    /\ UNCHANGED <<orchVars, calcVars, storeVars, queryVars, probeVars>>

(* fetch_current_prices: the lookup of the next symbol *)
FetchNext(input) ==
    /\ run.pc = "fetch"
    /\ \E r \in {svc_get_latest_price(cache, now, Upper(run.symbols[run.i]),
                                       input.outcomes, input.price)} :
          /\ r.now <= MaxTime
          /\ cache' = r.cache
          /\ now' = r.now
          /\ run' =
                IF ~r.ok /\ r.error.type # "MarketDataUnavailableError"
                THEN [NoJob EXCEPT !.crash = run.crash]
                ELSE [run EXCEPT
                        !.current_prices =
                            IF r.ok
                            THEN [k \in (DOMAIN run.current_prices)
                                          \cup {Upper(run.symbols[run.i])} |->
                                     IF k = Upper(run.symbols[run.i])
                                     THEN quote_to_price_point(r.quote)
                                     ELSE run.current_prices[k]]
                            ELSE run.current_prices,
                        !.i = IF run.i = Len(run.symbols) THEN 1 ELSE run.i + 1,
                        !.pc = IF run.i = Len(run.symbols)
                               THEN step_order[1] ELSE "fetch"]
    /\ UNCHANGED <<lastCall, lastFill, calcVars, storeVars, queryVars, probeVars>>

(* "if symbol not in current_prices: continue" *)
SkipSymbol ==
    /\ run.pc = step_order[1]
    /\ run.i <= Len(run.symbols)
    /\ ~Active
    /\ run' = [run EXCEPT !.i = run.i + 1]
    /\ UNCHANGED <<orchVars, calcVars, storeVars, queryVars, probeVars>>

(* previous = self.storage.get_latest_price(symbol) *)
ReadPrevious ==
    /\ run.pc = "read"
    /\ Active
    /\ \E previous \in storage_get_latest_price(history, CurrentSymbol) :
            run' = [run EXCEPT !.previous = previous, !.pc = StepAfter("read"),
                              !.read = TRUE, !.read_rows = Len(history)]
    /\ UNCHANGED <<orchVars, calcVars, storeVars, queryVars, probeVars>>

(* self.storage.save_price(current) *)
SaveCurrent ==
    /\ run.pc = "save"
    /\ Active
    /\ Len(history) < MaxRows
    /\ history' = save_price(history, CurrentPoint).rows
    /\ run' = [run EXCEPT !.pc = StepAfter("save"),
                          !.saved_row = save_price(history, CurrentPoint).id,
                          !.saved = CurrentPoint,
                          !.crash = IF run.crash.symbol = CurrentPoint.symbol
                                    THEN NoPoint ELSE run.crash]
    /\ UNCHANGED <<orchVars, calcVars, threshold, lastRun, queryVars, probeVars>>

(* "if previous is None: continue", else PriceChange.calculate and append *)
Evaluate ==
    /\ run.pc = "evaluate"
    /\ Active
    /\ run' = [run EXCEPT
                  !.changes = IF run.previous = NoPoint THEN run.changes
                              ELSE Append(run.changes,
                                          calculate(CurrentSymbol, run.previous,
                                                    CurrentPoint, threshold)),
                  !.i = run.i + 1,
                  !.pc = StepAfter("evaluate"),
                  !.previous = NoPoint,
                  !.read = FALSE, !.read_rows = 0, !.saved_row = 0,
                  !.done = [symbol |-> CurrentSymbol, current |-> CurrentPoint,
                            previous |-> run.previous,
                            read_rows |-> run.read_rows,
                            saved_row |-> run.saved_row, read |-> run.read,
                            compared |-> run.previous # NoPoint]]
    /\ UNCHANGED <<orchVars, calcVars, storeVars, queryVars, probeVars>>

(* the loop is over: the run returns and its memory is released *)
Return ==
    /\ run.pc = step_order[1]
    /\ run.i > Len(run.symbols)
    /\ run' = [NoJob EXCEPT !.crash = run.crash]
    /\ UNCHANGED <<orchVars, calcVars, storeVars, queryVars, probeVars>>

(* the process dies in the middle of a run and is started again: the     *)
(* cache and the run are gone, the rows committed so far are not         *)
Crash ==
    /\ run.pc # "idle"
    /\ cache' = <<>>
    /\ lastFill' = NoFill
    /\ run' = [NoJob EXCEPT !.crash = IF run.saved # NoPoint THEN run.saved
                                      ELSE run.crash]
    /\ UNCHANGED <<now, lastCall, calcVars, storeVars, queryVars, probeVars>>

StepBatches == {<<SymLower>>, <<SymPadded>>, <<SymLower, SymOther>>,
                <<SymUpper, SymUpper>>}

NextSteps ==
    \/ \E symbols \in StepBatches : StartRun(symbols)
    \/ \E input \in PipelineInputs : FetchNext(input)
    \/ SkipSymbol
    \/ ReadPrevious
    \/ SaveCurrent
    \/ Evaluate
    \/ Return
    \/ Crash

SpecSteps == Init /\ [][NextSteps]_vars

----------------------------------------------------------------------------
(* Properties of the orchestrator *)

IsFetch == lastCall.op = "get_latest_price"

(* what the i-th provider answers in the last call *)
Succeeds(i) == lastCall.outcomes[i] = "ok"

AllFail == \A i \in 1..Len(providers) : ~Succeeds(i)

(* str(e) of the error the i-th provider raised in the last call *)
ErrorTextOf(i) ==
    provider_get_latest_price(providers[i], Upper(lastCall.symbol),
                              lastCall.outcomes[i], QuotePrice, lastCall.time + 1).error.text

(* C1: a call that finds no valid cache entry invokes the providers in    *)
(* list order, each at most once, up to and including the first provider  *)
(* that succeeds; it returns that provider's quote, every provider before *)
(* it failed, and none after it is invoked.                               *)
C1_FallbackInListOrder ==
    (IsFetch /\ ~lastCall.hit) =>
        LET n == Len(lastCall.invoked)
        IN  /\ \A i \in 1..n : lastCall.invoked[i] = i
            /\ (\E i \in 1..Len(providers) : Succeeds(i)) => lastCall.ok
            /\ lastCall.ok =>
                    /\ n >= 1
                    /\ Succeeds(n)
                    /\ \A j \in 1..(n - 1) : ~Succeeds(j)
                    /\ lastCall.quote.provider_name = providers[n]
                    /\ lastCall.quote.symbol = Strip(Upper(lastCall.symbol))
            /\ ~lastCall.ok => n = Len(providers)

C1_Witness ==
    /\ IsFetch
    /\ ~lastCall.hit
    /\ lastCall.outcomes = <<"RateLimitError", "ok", "ok">>
    /\ lastCall.invoked = <<1, 2>>
    /\ lastCall.quote.provider_name = "twelve_data"

(* C2: when every provider fails the call returns no quote and raises     *)
(* MarketDataUnavailableError whose symbol is the uppercased requested    *)
(* symbol and whose message contains that symbol and the text of the last *)
(* provider error.                                                        *)
C2_AllFailRaisesAggregate ==
    (IsFetch /\ ~lastCall.hit /\ AllFail) =>
        /\ ~lastCall.ok
        /\ lastCall.quote = NoQuote
        /\ lastCall.error.type = "MarketDataUnavailableError"
        /\ lastCall.error.symbol = Upper(lastCall.symbol)
        /\ Contains(lastCall.error.text, Upper(lastCall.symbol))
        /\ Contains(lastCall.error.text, ErrorTextOf(Len(providers)))

C2_Witness ==
    /\ IsFetch
    /\ lastCall.symbol = SymLower
    /\ lastCall.outcomes = <<"RateLimitError", "ProviderUnavailableError", "ValueError">>
    /\ lastCall.error.type = "MarketDataUnavailableError"
    /\ lastCall.error.symbol = SymUpper
    /\ Contains(lastCall.error.text, <<"Unexpected error">>)

(* C3: after a successful fetch for S, a further call for S made before   *)
(* the expiry of the entry that fetch created invokes no provider and     *)
(* returns the quote of the call that filled the cache.                   *)
C3_RepeatServedFromCache ==
    (/\ IsFetch
     /\ lastCall.prior # NoFill
     /\ lastCall.prior.symbol = lastCall.symbol
     /\ lastCall.time < lastCall.prior.expires_at) =>
        /\ lastCall.hit
        /\ lastCall.invoked = <<>>
        /\ lastCall.quote = lastCall.prior.quote

(* C4: a cached quote is never returned at or after its entry's expiry    *)
(* instant; a call made at or after that instant invokes the providers    *)
(* again.                                                                 *)
C4_NeverServedAtOrAfterExpiry ==
    IsFetch =>
        /\ lastCall.hit =>
                /\ lastCall.entry # NoEntry
                /\ lastCall.quote = lastCall.entry.quote
                /\ lastCall.time < lastCall.entry.expires_at
        /\ (lastCall.entry # NoEntry /\ lastCall.time >= lastCall.entry.expires_at) =>
                /\ ~lastCall.hit
                /\ lastCall.invoked # <<>>
                /\ lastCall.invoked[1] = 1
                /\ lastCall.quote # lastCall.entry.quote

C4_Witness ==
    /\ IsFetch
    /\ lastCall.entry # NoEntry
    /\ lastCall.time = lastCall.entry.expires_at
    /\ ~lastCall.hit
    /\ lastCall.ok
    /\ lastCall.invoked = <<1>>

(* C5: whatever a provider raises, the orchestrator moves on to the next  *)
(* provider; the only error that leaves get_latest_price is               *)
(* MarketDataUnavailableError, and only when all providers failed.        *)
C5_OnlyAggregateErrorEscapes ==
    IsFetch =>
        /\ lastCall.error.type \in {"none", "MarketDataUnavailableError"}
        /\ lastCall.ok <=> lastCall.error = NoError
        /\ lastCall.error.type = "MarketDataUnavailableError" =>
                /\ AllFail
                /\ Len(lastCall.invoked) = Len(providers)
        /\ \A k \in 1..Len(lastCall.invoked) :
                (~Succeeds(lastCall.invoked[k]) /\ lastCall.invoked[k] < Len(providers))
                    => /\ k < Len(lastCall.invoked)
                       /\ lastCall.invoked[k + 1] = lastCall.invoked[k] + 1

C5_Witness ==
    /\ IsFetch
    /\ lastCall.outcomes = <<"ValueError", "RateLimitError", "ok">>
    /\ lastCall.ok
    /\ lastCall.invoked = <<1, 2, 3>>
    /\ lastCall.error = NoError

(* C6: "aapl", "AAPL" and "  AAPL  " resolve to the one cache entry under *)
(* key "AAPL": once one of them has been fetched, each of the others      *)
(* asked within the TTL is served from that entry, no provider invoked.   *)
C6_SpellingsShareCacheEntry ==
    (/\ IsFetch
     /\ lastCall.symbol \in AaplSpellings
     /\ lastCall.prior # NoFill
     /\ lastCall.prior.symbol \in AaplSpellings
     /\ lastCall.time < lastCall.prior.expires_at) =>
        /\ lastCall.hit
        /\ lastCall.invoked = <<>>
        /\ lastCall.entry.quote = lastCall.prior.quote
        /\ lastCall.quote.symbol = SymUpper

----------------------------------------------------------------------------
(* Properties of the change detector *)

Abs(x) == IF x < 0 THEN -x ELSE x

Sign(x) == IF x < 0 THEN -1 ELSE IF x > 0 THEN 1 ELSE 0

Calculated == change # NoCalc

(* digits of a natural number, most significant first; none for zero *)
RECURSIVE IntDigits(_)
IntDigits(n) == IF n = 0 THEN <<>> ELSE Append(IntDigits(n \div 10), n % 10)

(* digits * m for a small natural m, by schoolbook multiplication *)
RECURSIVE BigTimes(_, _, _, _, _)
BigTimes(digits, i, m, carry, acc) ==
    IF i = 0 THEN IntDigits(carry) \o acc
    ELSE LET v == digits[i] * m + carry
         IN  BigTimes(digits, i - 1, m, v \div 10, <<v % 10>> \o acc)

PadLeft(a, len) == [i \in 1..(len - Len(a)) |-> 0] \o a

(* a - b for digit sequences of equal length with a >= b *)
RECURSIVE BigMinus(_, _, _, _, _)
BigMinus(a, b, i, borrow, acc) ==
    IF i = 0 THEN acc
    ELSE LET v == a[i] - b[i] - borrow
         IN  IF v < 0 THEN BigMinus(a, b, i - 1, 1, <<v + 10>> \o acc)
             ELSE BigMinus(a, b, i - 1, 0, <<v>> \o acc)

Saturation == 100000000

(* the number a digit sequence denotes, saturating *)
RECURSIVE BigValue(_, _, _)
BigValue(a, i, acc) ==
    IF i > Len(a) THEN acc
    ELSE IF acc >= Saturation THEN Saturation
    ELSE BigValue(a, i + 1, 10 * acc + a[i])

(* |a - b| of two digit sequences, as a saturating number *)
BigDistance(a, b) ==
    LET len == IF Len(a) > Len(b) THEN Len(a) ELSE Len(b)
        x == PadLeft(a, len)
        y == PadLeft(b, len)
    IN  IF SeqCmp(x, y, 1) >= 0
        THEN BigValue(BigMinus(x, y, len, 0, <<>>), 1, 0)
        ELSE BigValue(BigMinus(y, x, len, 0, <<>>), 1, 0)

(* With q = change_percent / 100 = D * 10^(exp - 27):                     *)
(*   ScaledProduct = D * previous, ScaledAmount = |change_amount| * 10^k, *)
(* k = 27 - exp, so that q * previous = |change_amount| exactly when the  *)
(* two are equal.                                                         *)
RatioExp == change.result.change_percent.exp - 2

ScaledProduct ==
    BigTimes(change.result.change_percent.digits, DecimalPrec, change.previous, 0, <<>>)

ScaledAmount ==
    IntDigits(Abs(change.result.change_amount))
        \o [i \in 1..((DecimalPrec - 1) - RatioExp) |-> 0]

(* change_percent * previous = change_amount * 100, in exact arithmetic *)
ExactProduct ==
    /\ change.result.change_percent.sign = Sign(change.result.change_amount)
    /\ \/ change.result.change_amount = 0
       \/ BigDistance(ScaledProduct, ScaledAmount) = 0

RECURSIVE Gcd(_, _)
Gcd(a, b) == IF b = 0 THEN a ELSE Gcd(b, a % b)

RECURSIVE StripFactor(_, _)
StripFactor(n, f) == IF n % f = 0 THEN StripFactor(n \div f, f) ELSE n

(* n / d has a terminating decimal expansion *)
Terminating(n, d) ==
    n = 0 \/ StripFactor(StripFactor(d \div Gcd(n, d), 2), 5) = 1

(* C8: threshold_exceeded is true exactly when abs(change_percent) >=      *)
(* threshold; a move exactly equal to the threshold, up or down, is a     *)
(* breach.                                                                *)
C8_ThresholdInclusive ==
    Calculated =>
        /\ change.result.threshold_exceeded <=>
                DecCmp(DecAbs(change.result.change_percent),
                       DecOf(change.threshold, ThresholdPlaces)) >= 0
        /\ (Abs(change.current - change.previous) * 10000
                = change.threshold * change.previous)
                => change.result.threshold_exceeded

C8_Witness ==
    /\ Calculated
    /\ change.previous = 10000
    /\ change.current = 9850
    /\ change.threshold = 150
    /\ change.result.threshold_exceeded

(* C9 as claimed: change_amount = current - previous and change_percent   *)
(* times previous equals change_amount times 100 with no rounding error.  *)
C9_ExactPercent ==
    Calculated =>
        /\ change.result.change_amount = change.current - change.previous
        /\ ExactProduct

(* C9 as amended: change_amount is exact; change_percent is the quotient  *)
(* change_amount / previous rounded half-even to 28 significant digits,   *)
(* times 100: exact precisely when the quotient terminates, and otherwise *)
(* off by at most half a unit in the 28th digit of the quotient.          *)
C9_PercentRoundedTo28Digits ==
    Calculated =>
        /\ change.result.change_amount = change.current - change.previous
        /\ change.result.change_percent.sign = Sign(change.result.change_amount)
        /\ ExactProduct <=>
                Terminating(Abs(change.result.change_amount), change.previous)
        /\ change.result.change_amount # 0 =>
                2 * BigDistance(ScaledProduct, ScaledAmount) <= change.previous

C9_Witness ==
    /\ Calculated
    /\ change.previous = 300
    /\ change.current = 500
    /\ ~ExactProduct
    /\ change.result.change_percent.digits[DecimalPrec] = 7

----------------------------------------------------------------------------
(* Properties of the history store and the pipeline *)

Limits == 1..(MaxRows + 1)

(* the rows stored under key "AAPL", as points, in insertion order *)
AaplPoints ==
    SelectSeq([i \in 1..Len(history) |-> RowPoint(history[i])],
              LAMBDA p : p.symbol = SymUpper)

(* C7: latest, previous and history called with "aapl", "AAPL" or         *)
(* "  AAPL  " all return the same rows, those stored under key "AAPL".    *)
C7_SpellingsShareHistory ==
    \A s \in AaplSpellings :
        /\ storage_get_latest_price(history, s) = storage_get_latest_price(history, SymUpper)
        /\ get_previous_price(history, s) = get_previous_price(history, SymUpper)
        /\ \A limit \in Limits :
              /\ get_price_history(history, s, limit)
                    = get_price_history(history, SymUpper, limit)
              /\ \A h \in get_price_history(history, s, limit) :
                    /\ Len(h) = (IF Len(AaplPoints) < limit THEN Len(AaplPoints) ELSE limit)
                    /\ \A k \in 1..Len(h) : h[k].symbol = SymUpper

IsRun == lastRun.op = "get_threshold_breaches"

ZeroChange(c) == c.current_price = c.previous_price

(* C10 as claimed: a zero change is never flagged, whatever the threshold, *)
(* and no pipeline run returns a zero-change PriceChange as a breach.      *)
C10_ZeroChangeNeverBreach ==
    IsRun =>
        /\ \A k \in 1..Len(lastRun.changes) :
              ZeroChange(lastRun.changes[k]) => ~lastRun.changes[k].threshold_exceeded
        /\ \A k \in 1..Len(lastRun.breaches) : ~ZeroChange(lastRun.breaches[k])

(* C10 as amended: for every threshold > 0 a zero change is not flagged   *)
(* and no pipeline run returns a zero-change PriceChange as a breach.     *)
C10_ZeroChangeNeverBreachPositiveThreshold ==
    (IsRun /\ threshold > 0) =>
        /\ \A k \in 1..Len(lastRun.changes) :
              ZeroChange(lastRun.changes[k]) =>
                  /\ lastRun.changes[k].change_amount = 0
                  /\ lastRun.changes[k].change_percent = DecZero
                  /\ ~lastRun.changes[k].threshold_exceeded
        /\ \A k \in 1..Len(lastRun.breaches) : ~ZeroChange(lastRun.breaches[k])

C10_Witness ==
    /\ IsRun
    /\ threshold > 0
    /\ Len(lastRun.changes) = 1
    /\ ZeroChange(lastRun.changes[1])
    /\ lastRun.breaches = <<>>

----------------------------------------------------------------------------
(* Properties of pipeline runs.  lastRun records the last run: its input  *)
(* symbols, which fetches returned a quote, the store before the run, the *)
(* changes computed and the breaches returned.                            *)

(* the key a symbol's rows are stored under *)
KeyOf(symbol) == validate_stock_symbol(symbol).value

RowsOf(rows, key) == {i \in 1..Len(rows) : rows[i].symbol = key}

(* the rows the last run appended *)
Appended == SubSeq(history, Len(lastRun.before) + 1, Len(history))

Entries == 1..Len(lastRun.symbols)

(* some fetch of the run returned a quote for the symbol of entry i *)
FetchedKey(i) ==
    \E j \in Entries :
        KeyOf(lastRun.symbols[j]) = KeyOf(lastRun.symbols[i]) /\ lastRun.fetched[j]

ChangesOf(key) ==
    {k \in 1..Len(lastRun.changes) : lastRun.changes[k].symbol = key}

BreachesOf(key) ==
    {k \in 1..Len(lastRun.breaches) : lastRun.breaches[k].symbol = key}

(* C11: a run that fetches a symbol with no stored history produces no    *)
(* PriceChange and no breach for it, and does not raise.                  *)
C11_FirstObservationSkipped ==
    IsRun =>
        \A i \in Entries :
            (/\ lastRun.fetched[i]
             /\ RowsOf(lastRun.before, KeyOf(lastRun.symbols[i])) = {})
            => /\ ~lastRun.raised
               /\ ChangesOf(KeyOf(lastRun.symbols[i])) = {}
               /\ BreachesOf(KeyOf(lastRun.symbols[i])) = {}

(* C12: a run appends exactly one row for each symbol whose fetch         *)
(* succeeded, with or without a previous point or a breach, and no row    *)
(* for a symbol whose fetch failed.                                       *)
C12_OneRowPerFetchedSymbol ==
    IsRun =>
        \A i \in Entries :
            Cardinality(RowsOf(Appended, KeyOf(lastRun.symbols[i])))
                = (IF FetchedKey(i) THEN 1 ELSE 0)

RECURSIVE InInputOrder(_, _, _)
InInputOrder(cs, k, from) ==
    IF k > Len(cs) THEN TRUE
    ELSE \E i \in from..Len(lastRun.symbols) :
            /\ KeyOf(lastRun.symbols[i]) = cs[k].symbol
            /\ InInputOrder(cs, k + 1, i + 1)

(* the number of flagged changes among the first n *)
RECURSIVE Flagged(_)
Flagged(n) ==
    IF n = 0 THEN 0
    ELSE Flagged(n - 1) + (IF lastRun.changes[n].threshold_exceeded THEN 1 ELSE 0)

LastRowOf(rows, key) ==
    rows[CHOOSE i \in RowsOf(rows, key) : \A j \in RowsOf(rows, key) : j <= i]

(* C15: when a run fetches a symbol the previous run fetched and stored,  *)
(* its PriceChange has previous_price equal to that stored price, also    *)
(* with a new PriceService over the same data directory.                  *)
C15_PreviousIsLastStored ==
    IsRun =>
        \A i \in Entries :
            (/\ lastRun.fetched[i]
             /\ RowsOf(lastRun.before, KeyOf(lastRun.symbols[i])) # {})
            => /\ ChangesOf(KeyOf(lastRun.symbols[i])) # {}
               /\ \A k \in ChangesOf(KeyOf(lastRun.symbols[i])) :
                     (\A j \in ChangesOf(KeyOf(lastRun.symbols[i])) : k <= j)
                     => lastRun.changes[k].previous_price
                           = RowPoint(LastRowOf(lastRun.before,
                                                KeyOf(lastRun.symbols[i]))).price

(* points a caller may save *)
SamplePoints ==
    {PricePoint(sym, p, t, "USD").point :
        sym \in {SymUpper, SymOther}, p \in PipelinePrices, t \in {0, now}}

(* save_price on the current store adds one row, whose identifier it      *)
(* returns, greater than every identifier in the store                    *)
SaveAppends ==
    \A point \in SamplePoints :
        LET r == save_price(history, point)
        IN  /\ Len(r.rows) = Len(history) + 1
            /\ SubSeq(r.rows, 1, Len(history)) = history
            /\ r.rows[Len(r.rows)].id = r.id
            /\ RowPoint(r.rows[Len(r.rows)]) = point
            /\ \A j \in 1..Len(history) : history[j].id < r.id

(* a step keeps every row and gives new rows greater identifiers *)
RowsKept ==
    /\ Len(history') >= Len(history)
    /\ SubSeq(history', 1, Len(history)) = history
    /\ \A i \in (Len(history) + 1)..Len(history') :
          \A j \in 1..(i - 1) : history'[j].id < history'[i].id

(* C17: the history is append-only: save_price adds one row and returns   *)
(* an identifier greater than every earlier one, and no operation, a      *)
(* pipeline run included, changes or removes an existing row.             *)
C17_AppendOnly == [](SaveAppends) /\ [][RowsKept]_vars

C17_Witness ==
    /\ IsRun
    /\ Len(lastRun.before) >= 1
    /\ Len(Appended) >= 1
    /\ \A i \in RowsOf(lastRun.before, SymUpper) :
          \E k \in 1..Len(Appended) :
              /\ Appended[k].symbol = SymUpper
              /\ Appended[k].timestamp = lastRun.before[i].timestamp
    /\ RowsOf(lastRun.before, SymUpper) # {}

(* C19: in every state reachable by pipeline runs no two rows of the same *)
(* symbol carry the same timestamp.                                       *)
C19_TimestampsDistinctPerSymbol ==
    \A i, j \in 1..Len(history) :
        (i # j /\ history[i].symbol = history[j].symbol)
        => history[i].timestamp # history[j].timestamp

----------------------------------------------------------------------------
(* Properties of the history store under direct saves and lookups.        *)
(* savedPoints holds the points given to save_price, in the order saved.  *)

(* the points saved for the symbol of the last lookup *)
SavedOf == SelectSeq(savedPoints, LAMBDA p : p.symbol = KeyOf(lastQuery.symbol))

Stamps(points) == [k \in 1..Len(points) |-> points[k].timestamp]

Smaller(a, b) == IF a < b THEN a ELSE b

(* C16: after saving N points for a symbol, history(symbol, N) returns    *)
(* exactly those points, most recent first, prices and timestamps as      *)
(* saved; with limit < N only the limit most recent of them.              *)
C16_HistoryRoundTrip ==
    lastQuery.op = "get_price_history" =>
        LET res == lastQuery.points
            n == Smaller(lastQuery.limit, Len(SavedOf))
        IN  /\ Len(res) = n
            /\ \A k \in 1..(n - 1) : res[k].timestamp >= res[k + 1].timestamp
            /\ \E f \in [1..n -> 1..Len(SavedOf)] :
                  /\ \A a, b \in 1..n : a # b => f[a] # f[b]
                  /\ \A k \in 1..n : res[k] = SavedOf[f[k]]
                  /\ \A i \in 1..Len(SavedOf) :
                        (\A k \in 1..n : f[k] # i)
                        => \A k \in 1..n : SavedOf[i].timestamp <= res[k].timestamp

C16_Witness ==
    /\ lastQuery.op = "get_price_history"
    /\ lastQuery.limit = 2
    /\ Stamps(SavedOf) = <<3, 2, 4>>
    /\ lastQuery.points = <<SavedOf[3], SavedOf[1]>>

(* C18: after any saves, in any timestamp order, latest returns the row   *)
(* of greatest timestamp and previous the row of second-greatest; latest  *)
(* is none exactly when the symbol has no rows, previous exactly when it  *)
(* has fewer than two.                                                    *)
C18_LatestAndPreviousByTimestamp ==
    /\ lastQuery.op = "get_latest_price" =>
          /\ (lastQuery.point = NoPoint) <=> (Len(SavedOf) = 0)
          /\ Len(SavedOf) > 0 =>
                \E i \in 1..Len(SavedOf) :
                    /\ SavedOf[i] = lastQuery.point
                    /\ \A j \in 1..Len(SavedOf) :
                          SavedOf[j].timestamp <= lastQuery.point.timestamp
    /\ lastQuery.op = "get_previous_price" =>
          /\ (lastQuery.point = NoPoint) <=> (Len(SavedOf) < 2)
          /\ Len(SavedOf) >= 2 =>
                \E i, j \in 1..Len(SavedOf) :
                    /\ i # j
                    /\ SavedOf[i] = lastQuery.point
                    /\ \A k \in 1..Len(SavedOf) :
                          SavedOf[k].timestamp <= SavedOf[j].timestamp
                    /\ \A k \in 1..Len(SavedOf) :
                          k # j => SavedOf[k].timestamp <= lastQuery.point.timestamp

C18_Witness ==
    /\ lastQuery.op = "get_previous_price"
    /\ Stamps(SavedOf) = <<4, 2, 3>>
    /\ lastQuery.point = SavedOf[3]

----------------------------------------------------------------------------
(* Properties of the provider adapters *)

(* C20: a Finnhub, Twelve Data or Alpha Vantage adapter with an empty API *)
(* key fails every get_latest_price with ProviderUnavailableError before  *)
(* any network request is made.                                           *)
C20_EmptyKeyFailsBeforeRequest ==
    (/\ probe.op = "get_latest_price"
     /\ probe.provider \in KeyedProviders
     /\ probe.api_key = <<>>) =>
        /\ ~probe.ok
        /\ probe.quote = NoQuote
        /\ probe.error.type = "ProviderUnavailableError"
        /\ Contains(probe.error.text, <<probe.provider>>)
        /\ probe.requests = 0

C20_Witness ==
    /\ probe.op = "get_latest_price"
    /\ probe.provider = "alpha_vantage"
    /\ probe.api_key = <<>>
    /\ probe.response = Resp(TRUE, 200, TRUE, "quote", <<>>, Num(QuotePrice), NoField)
    /\ probe.error = ProviderUnavailableError("alpha_vantage",
                                              <<"API key not configured">>)
    /\ probe.requests = 0

ProviderErrorTypes == {"RateLimitError", "ProviderUnavailableError"}

(* C21: every failure of a provider's get_latest_price surfaces as a      *)
(* RateLimitError or a ProviderUnavailableError; a transport error, a     *)
(* parse error or a model validation error raised inside never escapes.   *)
C21_OnlyProviderErrorsEscape ==
    probe.op = "get_latest_price" =>
        IF probe.ok
        THEN probe.error = NoError /\ probe.quote # NoQuote
        ELSE probe.error.type \in ProviderErrorTypes /\ probe.quote = NoQuote

C21_Witness ==
    /\ probe.op = "get_latest_price"
    /\ probe.provider = "twelve_data"
    /\ probe.api_key # <<>>
    /\ ~probe.ok
    /\ probe.raised.type = "ValidationError"
    /\ probe.error.type = "ProviderUnavailableError"

(* the price the source reports: the price field, for Yahoo the close of *)
(* the history when the info has none                                    *)
SourcePrice ==
    IF probe.provider = "yahoo_finance" /\ probe.response.price.text = "none"
    THEN probe.response.close
    ELSE probe.response.price

(* missing, unparseable, zero or negative *)
BadPrice(field) == field.text # "number" \/ field.value <= 0

(* the call reached the price: key set, response received, no error told *)
ReadsPrice ==
    /\ probe.op = "get_latest_price"
    /\ probe.provider \in KeyedProviders => probe.api_key # <<>>
    /\ probe.response.transport
    /\ probe.response.status = 200
    /\ probe.response.json
    /\ probe.response.tag = "quote"

(* C22: a provider returns a quote only with a strictly positive price;   *)
(* when the source's price is missing, zero, negative or unparseable the  *)
(* call fails as unavailable and returns no quote.                        *)
C22_NonPositivePriceUnavailable ==
    /\ (probe.op = "get_latest_price" /\ probe.ok) => probe.quote.price > 0
    /\ (ReadsPrice /\ BadPrice(SourcePrice)) =>
            /\ ~probe.ok
            /\ probe.quote = NoQuote
            /\ probe.error.type = "ProviderUnavailableError"

(* the settings configure the provider at place i of the fixed order *)
Configured(i) == i = Len(FactoryOrder) \/ service.settings[i] # <<>>

PlaceOf(name) == CHOOSE i \in 1..Len(FactoryOrder) : FactoryOrder[i] = name

(* C28: create_market_data_service lists the providers in the order      *)
(* Finnhub, Twelve Data, Alpha Vantage, Yahoo Finance, each of the first  *)
(* three exactly when its API key is configured and Yahoo Finance always  *)
(* last; the list is never empty.                                         *)
C28_ProviderListOrder ==
    service # NoService =>
        LET ps == service.providers
        IN  /\ ps # <<>>
            /\ ps[Len(ps)] = Provider("yahoo_finance", <<>>)
            /\ \A i \in 1..Len(FactoryOrder) :
                    Configured(i) <=> \E j \in 1..Len(ps) : ps[j].name = FactoryOrder[i]
            /\ \A j, k \in 1..Len(ps) :
                    j < k => PlaceOf(ps[j].name) < PlaceOf(ps[k].name)
            /\ \A j \in 1..(Len(ps) - 1) :
                    ps[j].api_key = service.settings[PlaceOf(ps[j].name)]

C28_Witness ==
    /\ service.settings = <<<<"k", "e", "y">>, <<>>, <<"k", "e", "y">>>>
    /\ service.providers = <<Provider("finnhub", <<"k", "e", "y">>),
                             Provider("alpha_vantage", <<"k", "e", "y">>),
                             Provider("yahoo_finance", <<>>)>>

(* the limit message of each provider, as its adapter recognises it in a *)
(* 200 body: Finnhub's error text naming a limit, Twelve Data's error    *)
(* message naming a limit or a quota, Alpha Vantage's Note               *)
OwnLimitMessage(name, response) ==
    CASE name = "finnhub" ->
            response.tag = "error" /\ Contains(Lower(response.message), <<"limit">>)
      [] name = "twelve_data" ->
            /\ response.tag = "error"
            /\ \/ Contains(Lower(response.message), <<"limit">>)
               \/ Contains(Lower(response.message), <<"quota">>)
      [] OTHER -> response.tag = "note"

Throttled(name, response) ==
    /\ response.transport
    /\ \/ response.status = 429
       \/ response.status = 200 /\ response.json /\ OwnLimitMessage(name, response)

(* C29: a keyed adapter classifies HTTP 429 as rate-limited and any other *)
(* non-200 status as unavailable; a 200 body with the provider's own limit *)
(* message is rate-limited, every other fault is unavailable.             *)
C29_FaultClassification ==
    (/\ probe.op = "get_latest_price"
     /\ probe.provider \in KeyedProviders
     /\ ~probe.ok) =>
        probe.error.type =
            IF probe.api_key # <<>> /\ Throttled(probe.provider, probe.response)
            THEN "RateLimitError"
            ELSE "ProviderUnavailableError"

C29_Witness ==
    /\ probe.op = "get_latest_price"
    /\ probe.provider = "finnhub"
    /\ probe.api_key # <<>>
    /\ probe.response = Resp(TRUE, 404, TRUE, "error", MsgLimit, NoField, NoField)
    /\ probe.error = ProviderUnavailableError("finnhub", <<"HTTP ", "404">>)


----------------------------------------------------------------------------
(* Properties of the models *)

Trimmed(symbol) == Strip(symbol)

(* empty after trimming, longer than ten characters, or with a character *)
(* that is no letter, digit, '.', '^' or '-'                             *)
Malformed(symbol) ==
    \/ Trimmed(symbol) = <<>>
    \/ Len(Trimmed(symbol)) > MaxSymbolLen
    \/ \E i \in 1..Len(Trimmed(symbol)) :
            Trimmed(symbol)[i] \notin (AlnumChars \cup AllowedChars)

(* C23: constructing a PriceQuote, PricePoint or PriceChange with a price *)
(* <= 0 or with a malformed symbol fails and yields no object; an         *)
(* accepted symbol is stored uppercased and trimmed.                      *)
C23_ModelsRejectBadInput ==
    built.model # "none" =>
        /\ ((\E i \in 1..Len(built.prices) : built.prices[i] <= 0)
                \/ Malformed(built.symbol)) =>
                    ~built.ok /\ built.object = <<>>
        /\ built.ok =>
                /\ built.stored = Upper(Trimmed(built.symbol))
                /\ built.object # <<>>
                /\ built.object[1].symbol = built.stored

C23_Witness ==
    /\ built.model = "PriceChange"
    /\ built.symbol = SymPadded
    /\ built.prices = <<0, QuotePrice>>
    /\ ~built.ok
    /\ built.object = <<>>

----------------------------------------------------------------------------
(* Properties of the cache *)

(* the step is a get_latest_price call *)
CallStep == lastCall' # lastCall /\ lastCall'.op = "get_latest_price"

(* the last call found an entry under its key, and found it expired *)
FoundExpired ==
    /\ IsFetch
    /\ lastCall.entry # NoEntry
    /\ lastCall.time >= lastCall.entry.expires_at

(* after a lookup that found its entry expired and no provider answered: *)
(* the call raised, served nothing, and the entry is gone                *)
ExpiredNotServed ==
    (FoundExpired /\ AllFail) =>
        /\ ~lastCall.ok
        /\ ~lastCall.hit
        /\ lastCall.quote = NoQuote
        /\ lastCall.error.type = "MarketDataUnavailableError"
        /\ Len(lastCall.invoked) = Len(providers)
        /\ Upper(lastCall.symbol) \notin DOMAIN cache

(* an entry leaves the cache only in a lookup under its key that finds it *)
(* expired, or when the cache is cleared on request                      *)
EvictedOnLookup ==
    \A k \in (DOMAIN cache) \ (DOMAIN cache') :
        \/ lastCall'.op = "clear_cache"
        \/ /\ CallStep
           /\ Upper(lastCall'.symbol) = k
           /\ now >= cache[k].expires_at
           /\ ~lastCall'.ok

(* C25: expired entries are evicted only lazily: an entry stays until a  *)
(* get_latest_price lookup for its symbol finds it expired; that lookup  *)
(* removes it, and when every provider then fails the call raises, the   *)
(* stale quote is not served and no entry for the symbol remains.        *)
C25_LazyEviction == []ExpiredNotServed /\ [][EvictedOnLookup]_vars

C25_Witness ==
    /\ FoundExpired
    /\ AllFail
    /\ lastCall.entry.quote.symbol = SymUpper
    /\ SymUpper \notin DOMAIN cache
    /\ SymOther \in DOMAIN cache
    /\ now >= cache[SymOther].expires_at

(* every entry is stored under the symbol of its quote, one per symbol,  *)
(* and expires one TTL after its quote was fetched                       *)
EntriesKeyed ==
    /\ \A k \in DOMAIN cache :
            /\ cache[k].quote.symbol = k
            /\ cache[k].expires_at = cache[k].quote.timestamp + CacheTtl
    /\ \A j, k \in DOMAIN cache : KeyOf(j) = KeyOf(k) => j = k

(* a successful provider fetch writes the entry of its quote's symbol, a *)
(* hit writes nothing, and nothing else writes an entry                  *)
LastFetchWins ==
    /\ (CallStep /\ lastCall'.ok /\ ~lastCall'.hit) =>
            /\ lastCall'.quote.symbol \in DOMAIN cache'
            /\ cache'[lastCall'.quote.symbol] =
                    [quote |-> lastCall'.quote, expires_at |-> now' + CacheTtl]
            /\ lastCall'.quote.timestamp = now'
    /\ (CallStep /\ lastCall'.hit) => cache' = cache
    /\ \A k \in DOMAIN cache' :
            (k \notin DOMAIN cache \/ cache'[k] # cache[k]) =>
                /\ CallStep
                /\ lastCall'.ok
                /\ ~lastCall'.hit
                /\ lastCall'.quote.symbol = k

(* C26: the cache holds at most one entry per symbol, stored under the   *)
(* symbol of its quote; the entry is the quote of the most recent        *)
(* successful provider fetch for the symbol and expires one TTL after    *)
(* that fetch; a cache hit never changes an entry.                       *)
C26_LastFetchWins == []EntriesKeyed /\ [][LastFetchWins]_vars

C26_Witness ==
    /\ IsFetch
    /\ lastCall.symbol = SymPadded
    /\ lastCall.ok
    /\ ~lastCall.hit
    /\ lastCall.prior.quote.symbol = SymUpper
    /\ lastCall.time < lastCall.prior.expires_at
    /\ DOMAIN cache = {SymUpper}
    /\ cache[SymUpper].quote = lastCall.quote
    /\ cache[SymUpper].expires_at = now + CacheTtl

----------------------------------------------------------------------------
(* Properties of the pipeline, step by step *)

(* the rows the store held before the row of the completed step *)
RowsBeforeStep == SubSeq(history, 1, run.done.saved_row - 1)

(* C24: for each symbol the pipeline reads previous = latest(symbol)     *)
(* before it saves the current point and saves before it evaluates; the  *)
(* previous point of a comparison is the latest of the rows the store    *)
(* held before the step, never the row the step wrote.                   *)
C24_ReadSaveEvaluate ==
    run.done # NoStep =>
        /\ run.done.read
        /\ run.done.saved_row = run.done.read_rows + 1
        /\ run.done.saved_row <= Len(history)
        /\ RowPoint(history[run.done.saved_row]) = run.done.current
        /\ run.done.previous \in
                storage_get_latest_price(RowsBeforeStep, run.done.symbol)
        /\ run.done.previous # NoPoint =>
                /\ run.changes # <<>>
                /\ run.changes[Len(run.changes)] =
                        calculate(run.done.symbol, run.done.previous,
                                  run.done.current, threshold)

C24_Witness ==
    /\ run.symbols = <<SymUpper, SymUpper>>
    /\ run.done.saved_row = 2
    /\ run.done.previous = RowPoint(history[1])
    /\ run.done.previous.timestamp = run.done.current.timestamp
    /\ Len(run.changes) = 1

(* C27: when a run dies after the save of a symbol's current point and   *)
(* before the change is returned, the saved row is retained and the next *)
(* run reads that point as the previous one of the symbol.               *)
C27_CrashSavedPointIsNextPrevious ==
    run.crash # NoPoint =>
        /\ \E n \in 1..Len(history) : RowPoint(history[n]) = run.crash
        /\ (run.read /\ KeyOf(run.symbols[run.i]) = run.crash.symbol) =>
                run.previous = run.crash

FetchStep == run.pc = "fetch" /\ run'.pc # "idle"

SaveStep == run.pc = "save" /\ run'.pc = StepAfter("save")

(* every cache entry of another symbol than x is what it was *)
OtherEntriesKept(x) ==
    \A k \in (DOMAIN cache) \cup (DOMAIN cache') :
        KeyOf(k) # KeyOf(x) =>
            /\ k \in DOMAIN cache
            /\ k \in DOMAIN cache'
            /\ cache'[k] = cache[k]

(* the rows are what they were, with one more row of symbol x *)
OneRowAdded(x) ==
    /\ Len(history') = Len(history) + 1
    /\ SubSeq(history', 1, Len(history)) = history
    /\ history'[Len(history')].symbol = KeyOf(x)

Frame ==
    /\ FetchStep =>
            /\ history' = history
            /\ OtherEntriesKept(run.symbols[run.i])
    /\ SaveStep =>
            /\ cache' = cache
            /\ OneRowAdded(run.symbols[run.i])
    /\ (run.pc \in {"read", "evaluate"} /\ run'.pc # "idle") =>
            /\ cache' = cache
            /\ history' = history

(* C30: a lookup or a pipeline step for one symbol never adds, changes   *)
(* or removes the cache entry or the rows of another symbol, and the     *)
(* lookup itself never writes to the store.                              *)
C30_OtherSymbolsUntouched == [][Frame]_vars

C30_Witness ==
    /\ run.symbols = <<SymLower, SymOther>>
    /\ run.pc = "evaluate"
    /\ run.i = 2
    /\ DOMAIN cache = {SymUpper, SymOther}
    /\ Len(history) = 2
    /\ history[1].symbol = SymUpper
    /\ history[2].symbol = SymOther

====
